---- MODULE Spec2Model ----
(***************************************************************************)
(* Model of the audit "skills" scripts:                                    *)
(*   - update_dead_code_progress.py / update_tests_progress.py (ledger     *)
(*     generators that merge an audit JSON with a hand-edited text ledger) *)
(*   - apply_tests_from_progress.py (writes approved tests under tests/)   *)
(*   - generate_repo_codebook.py (version stamping of the codebook)        *)
(*                                                                         *)
(* Text is modelled as sequences of one-character strings, a text file as  *)
(* a sequence of lines, and a line "Key:<rest>" as the record              *)
(* [key |-> "Key", val |-> <rest>], so that formatting (the f-strings and  *)
(* the rstrip calls) and parsing (the regex of pick and the strip calls)   *)
(* are two different computations.                                         *)
(***************************************************************************)
EXTENDS Integers, Sequences, FiniteSets, TLC

VARIABLES
    skill,      \* which skill's files the project holds: "dead" or "tests"
    audit,      \* the audit JSON document (docs/audit/*_audit.json)
    ledger,     \* the progress ledger: NoFile or a sequence of lines
    files,      \* files written under the working directory by apply runs
    run,        \* the last operation and how it ended
    artifact,   \* docs/artifacts/repo_codebook.md: NoFile or its content
    config,     \* docs/artifacts/repo_codebook.config.json
    edits       \* how many times the user or the audit tool changed a file

vars == <<skill, audit, ledger, files, run, artifact, config, edits>>

\* ------------------------------------------------------------------------
\* Text helpers (str.strip, str.rstrip, re.sub(r"\s+", " ", s), str.lower)
\* ------------------------------------------------------------------------

\* a path of the file system: absent, or a text file holding lines
NoFile == [exists |-> FALSE, lines |-> <<>>]
File(lines) == [exists |-> TRUE, lines |-> lines]

IsSpace(c) == c = " "

RECURSIVE LStrip(_)
LStrip(s) ==
    IF s = <<>> THEN <<>>
    ELSE IF IsSpace(Head(s)) THEN LStrip(Tail(s)) ELSE s

RECURSIVE RStrip(_)
RStrip(s) ==
    IF s = <<>> THEN <<>>
    ELSE IF IsSpace(s[Len(s)]) THEN RStrip(SubSeq(s, 1, Len(s) - 1)) ELSE s

Strip(s) == RStrip(LStrip(s))

\* re.sub(r"\s+", " ", s): every maximal run of whitespace becomes one " "
RECURSIVE CollapseWs(_)
CollapseWs(s) ==
    IF s = <<>> THEN <<>>
    ELSE IF IsSpace(Head(s))
         THEN <<" ">> \o CollapseWs(LStrip(s))
         ELSE <<Head(s)>> \o CollapseWs(Tail(s))

LowerChar(c) ==
    CASE c = "X" -> "x"
      [] c = "A" -> "a"
      [] c = "B" -> "b"
      [] OTHER -> c

Lower(s) == [i \in 1..Len(s) |-> LowerChar(s[i])]

\* ------------------------------------------------------------------------
\* JSON values of the audit documents
\* ------------------------------------------------------------------------

\* item.get(key, default) on a key the JSON object does not have
Absent == <<"<absent>">>

Get(v, default) == IF v = Absent THEN default ELSE v

\* ------------------------------------------------------------------------
\* Ledger text: lines, '---'-delimited blocks, 'Key: value' fields
\* ------------------------------------------------------------------------

DelimLine == [key |-> "---", val |-> <<>>]
BlankLine == [key |-> "", val |-> <<>>]
TextLine(t) == [key |-> "#", val |-> <<t>>]
Field(k, v) == [key |-> k, val |-> v]

\* line.strip() == "---"
IsDelim(line) == line.key = "---"

\* the loop over text.splitlines() of _parse_progress / _parse_existing,
\* from line i on: a delimiter closes the buffer if it is not empty, other
\* lines join it; the buffer left at the end is a block too
RECURSIVE SplitFrom(_, _, _, _)
SplitFrom(lines, i, buf, blocks) ==
    IF i > Len(lines)
    THEN IF buf # <<>> THEN Append(blocks, buf) ELSE blocks
    ELSE IF IsDelim(lines[i])
         THEN IF buf # <<>>
              THEN SplitFrom(lines, i + 1, <<>>, Append(blocks, buf))
              ELSE SplitFrom(lines, i + 1, buf, blocks)
         ELSE SplitFrom(lines, i + 1, Append(buf, lines[i]), blocks)

SplitBlocks(lines) == SplitFrom(lines, 1, <<>>, <<>>)

\* the first line of the block, from line i on, that the pattern of key
\* matches; 0 if there is none
RECURSIVE FirstMatch(_, _, _)
FirstMatch(lines, key, i) ==
    IF i > Len(lines) THEN 0
    ELSE IF lines[i].key = key THEN i
         ELSE FirstMatch(lines, key, i + 1)

\* mutant: the pattern lacks the \s* after the colon
pick_KeepLeading(lines, key) ==
    LET i == FirstMatch(lines, key, 1)
    IN IF i = 0 THEN <<>> ELSE lines[i].val

\* pick(lines, key): group(1) of ^\s*key\s*:\s*(.*)\s*$ on the first line
\* that matches; the \s* after the colon eats the leading whitespace, the
\* greedy (.*) keeps the trailing whitespace
pick(lines, key) ==
    LET i == FirstMatch(lines, key, 1)
    IN IF i = 0 THEN <<>> ELSE LStrip(lines[i].val)

\* "\n".join(out).rstrip() + "\n": trailing blank lines are dropped and the
\* last line loses its trailing whitespace
RECURSIVE RStripText(_)
RStripText(lines) ==
    IF lines = <<>> THEN <<>>
    ELSE LET last == lines[Len(lines)] IN
         IF last.key = "" THEN RStripText(SubSeq(lines, 1, Len(lines) - 1))
         ELSE IF last.key = "---" THEN lines
         ELSE IF last.key = "#" THEN lines
         ELSE [lines EXCEPT ![Len(lines)] = Field(last.key, RStrip(last.val))]

\* f"Notes: {notes}".rstrip()
NotesLine(notes) == Field("Notes", RStrip(<<" ">> \o notes))

\* ------------------------------------------------------------------------
\* update_dead_code_progress.py
\* ------------------------------------------------------------------------

DeadHeader ==
    << TextLine("# Dead Code Progress - User Selection"), BlankLine,
       TextLine("How to use:"),
       TextLine("1) Mark x in the Remove? column for items you approve to delete."),
       TextLine("2) Add context in Notes if needed"),
       TextLine("3) Then ask Codex:"),
       TextLine("   - $dead-code-audit apply from progress"), BlankLine,
       TextLine("Table columns:"),
       TextLine("- Remove? : put x to approve removal"),
       TextLine("- Notes : free text") >>

\* _norm_ws
NormWs(s) == Strip(CollapseWs(s))

\* dict.get on the parsed ledger: the entry, or None
NoEntry == [none |-> TRUE]
Lookup(saved, id) == IF id \in DOMAIN saved THEN saved[id] ELSE NoEntry

\* the loop "for block in parts" of _parse_progress: a block without an ID
\* is skipped, a later block with the same ID replaces the earlier entry
RECURSIVE DeadSaved(_, _)
DeadSaved(parts, saved) ==
    IF parts = <<>> THEN saved
    ELSE LET block == Head(parts)
             entry_id == pick(block, "ID")
             entry == [id |-> Strip(entry_id),
                       category |-> Strip(pick(block, "Category")),
                       remove |-> Strip(pick(block, "Remove?")),
                       notes |-> RStrip(pick(block, "Notes"))]
         IN IF entry_id = <<>> THEN DeadSaved(Tail(parts), saved)
            ELSE DeadSaved(Tail(parts),
                           [k \in DOMAIN saved \cup {entry.id} |->
                               IF k = entry.id THEN entry ELSE saved[k]])

\* _parse_progress
ParseProgress(progress) ==
    IF ~progress.exists THEN << >>
    ELSE DeadSaved(SplitBlocks(progress.lines), << >>)

DeadCategories ==
    << [list |-> "safe_removal_candidates",
        category |-> "Safe removal (high confidence)"],
       [list |-> "needs_manual_confirmation",
        category |-> "Needs manual confirmation"],
       [list |-> "dependency_findings",
        category |-> "Dependency findings"] >>

\* mutant: the lists are walked in the reverse order
RECURSIVE IterItems_Reversed(_, _)
IterItems_Reversed(payload, n) ==
    IF n = 0 THEN <<>>
    ELSE [i \in 1..Len(payload[DeadCategories[n].list]) |->
             [category |-> DeadCategories[n].category,
              item |-> payload[DeadCategories[n].list][i]]]
         \o IterItems_Reversed(payload, n - 1)

\* _iter_items: (category, item) pairs, list by list in the fixed order
RECURSIVE IterItems(_, _)
IterItems(payload, n) ==
    IF n = 0 THEN <<>>
    ELSE IterItems(payload, n - 1) \o
         [i \in 1..Len(payload[DeadCategories[n].list]) |->
             [category |-> DeadCategories[n].category,
              item |-> payload[DeadCategories[n].list][i]]]

DefaultWhy == <<"Unreferenced in repo roots (per audit evidence); verify dynamic usage.">>

\* _format_block; the last element is the empty string that ends the block
FormatBlock(item_id, category, remove, name, notes) ==
    << DelimLine,
       Field("ID", <<" ">> \o item_id),
       Field("Category", <<" ", category>>),
       Field("Remove?", <<" ">> \o remove),
       Field("Item", <<" ">> \o NormWs(name)),
       Field("Type", <<" ">>),
       Field("Location", <<" ">>),
       Field("Why it looks dead", <<" ">> \o NormWs(DefaultWhy)),
       Field("Evidence (commands + results snippets)", <<" ">>),
       Field("Confidence (0-1)", <<" ">>),
       Field("Risk (L/M/H)", <<" ">>),
       Field("Recommendation", <<" ">>),
       NotesLine(notes),
       DelimLine,
       BlankLine >>

\* mutant: the id is not stripped, so a blank id counts as an id
DeadItemId_NoStrip(item) == Get(item.id, <<>>)

\* item_id = str(item.get("id", "")).strip()
DeadItemId(item) == Strip(Get(item.id, <<>>))

\* mutant: the saved decision is reused only for an unchanged category
DeadBlock_SameCategory(existing, pair) ==
    LET item_id == DeadItemId(pair.item)
        prev == Lookup(existing, item_id)
        same == prev # NoEntry /\ prev.category = <<pair.category>>
        remove == IF same THEN prev.remove ELSE <<>>
        notes == IF same THEN prev.notes ELSE <<>>
        name == Strip(Get(pair.item.name, <<>>))
    IN FormatBlock(item_id, pair.category, remove,
                   IF name # <<>> THEN name ELSE item_id, notes)

\* the body of the loop of main for one (category, item) pair
DeadBlock(existing, pair) ==
    LET item_id == DeadItemId(pair.item)
        prev == Lookup(existing, item_id)
        remove == IF prev # NoEntry THEN prev.remove ELSE <<>>
        notes == IF prev # NoEntry THEN prev.notes ELSE <<>>
        name == Strip(Get(pair.item.name, <<>>))
    IN FormatBlock(item_id, pair.category, remove,
                   IF name # <<>> THEN name ELSE item_id, notes)

RECURSIVE Concat(_)
Concat(seqs) == IF seqs = <<>> THEN <<>> ELSE Head(seqs) \o Concat(Tail(seqs))

\* mutant: the blocks of the old ledger that match no item are kept
UpdateDeadCodeProgress_KeepStale(payload, progress) ==
    LET existing == ParseProgress(progress)
        pairs == IterItems(payload, Len(DeadCategories))
        ids == {DeadItemId(pairs[i].item) : i \in 1..Len(pairs)}
        Stale(b) == Strip(pick(b, "ID")) # <<>> /\ Strip(pick(b, "ID")) \notin ids
        old == IF progress.exists THEN SelectSeq(SplitBlocks(progress.lines), Stale) ELSE <<>>
    IN IF \E i \in 1..Len(pairs) : DeadItemId(pairs[i].item) = <<>>
       THEN [outcome |-> "fatal", ledger |-> progress]
       ELSE [outcome |-> "ok",
             ledger |-> File(RStripText(
                 DeadHeader \o <<BlankLine>> \o
                 Concat([i \in 1..Len(pairs) |-> DeadBlock(existing, pairs[i])]) \o
                 Concat([i \in 1..Len(old) |-> <<DelimLine>> \o old[i] \o <<DelimLine>>])))]

\* main of update_dead_code_progress: the outcome and the ledger it leaves
UpdateDeadCodeProgressResult(payload, progress) ==
    LET existing == ParseProgress(progress)
        pairs == IterItems(payload, Len(DeadCategories))
    IN IF \E i \in 1..Len(pairs) : DeadItemId(pairs[i].item) = <<>>
       THEN [outcome |-> "fatal", ledger |-> progress]
       ELSE [outcome |-> "ok",
             ledger |-> File(RStripText(
                 DeadHeader \o <<BlankLine>> \o
                 Concat([i \in 1..Len(pairs) |-> DeadBlock(existing, pairs[i])])))]

\* ------------------------------------------------------------------------
\* update_tests_progress.py
\* ------------------------------------------------------------------------

TestsHeader ==
    << TextLine("# Minimal Tests Progress - User Selection"), BlankLine,
       TextLine("How to use:"),
       TextLine("1) Mark x in the Create? field for tests you approve to create under tests/."),
       TextLine("2) Add context in Notes if needed"),
       TextLine("3) Then ask Codex:"),
       TextLine("   - $minimal-tests-audit apply from progress") >>

\* _norm: re.sub(r"\s+", " ", str(s or "")).strip(); a missing key reads None
Norm(v) == Strip(CollapseWs(Get(v, <<>>)))

\* the loop "for block in blocks" of _parse_existing
RECURSIVE TestsSaved(_, _)
TestsSaved(blocks, saved) ==
    IF blocks = <<>> THEN saved
    ELSE LET block == Head(blocks)
             tid == Strip(pick(block, "ID"))
             choice == [test_id |-> tid,
                        create |-> Strip(pick(block, "Create?")),
                        notes |-> RStrip(pick(block, "Notes"))]
         IN IF tid = <<>> THEN TestsSaved(Tail(blocks), saved)
            ELSE TestsSaved(Tail(blocks),
                            [k \in DOMAIN saved \cup {tid} |->
                                IF k = tid THEN choice ELSE saved[k]])

\* _parse_existing
ParseExisting(progress) ==
    IF ~progress.exists THEN << >>
    ELSE TestsSaved(SplitBlocks(progress.lines), << >>)

\* tid = _norm(t.get("id"))
TestsItemId(t) == Norm(t.id)

\* the out.extend([...]) of main for one proposed test
TestsBlock(saved, t) ==
    LET tid == TestsItemId(t)
        prev == Lookup(saved, tid)
        create == IF prev # NoEntry THEN prev.create ELSE <<>>
        notes == IF prev # NoEntry THEN prev.notes ELSE <<>>
    IN << DelimLine,
          Field("ID", <<" ">> \o tid),
          Field("Create?", <<" ">> \o create),
          Field("File path", <<" ">> \o Norm(t.file_path)),
          Field("Scope", <<" ">> \o Norm(t.scope)),
          Field("Targets", <<" ">>),
          Field("Rationale", <<" ">>),
          Field("Evidence", <<" ">>),
          NotesLine(notes),
          DelimLine,
          BlankLine >>

\* mutant: the blocks of the old ledger that match no item are kept
UpdateTestsProgress_KeepStale(payload, progress) ==
    LET saved == ParseExisting(progress)
        proposed == payload.proposed_tests
        ids == {TestsItemId(proposed[i]) : i \in 1..Len(proposed)}
        Stale(b) == Strip(pick(b, "ID")) # <<>> /\ Strip(pick(b, "ID")) \notin ids
        old == SelectSeq(SplitBlocks(progress.lines), Stale)
    IN IF \E i \in 1..Len(proposed) : TestsItemId(proposed[i]) = <<>>
       THEN [outcome |-> "fatal", ledger |-> progress]
       ELSE [outcome |-> "ok",
             ledger |-> File(RStripText(
                 TestsHeader \o <<BlankLine>> \o
                 Concat([i \in 1..Len(proposed) |-> TestsBlock(saved, proposed[i])]) \o
                 Concat([i \in 1..Len(old) |-> <<DelimLine>> \o old[i] \o <<DelimLine>>])))]

\* main of update_tests_progress: the outcome and the ledger it leaves
UpdateTestsProgressResult(payload, progress) ==
    LET saved == ParseExisting(progress)
        proposed == payload.proposed_tests
    IN IF \E i \in 1..Len(proposed) : TestsItemId(proposed[i]) = <<>>
       THEN [outcome |-> "fatal", ledger |-> progress]
       ELSE [outcome |-> "ok",
             ledger |-> File(RStripText(
                 TestsHeader \o <<BlankLine>> \o
                 Concat([i \in 1..Len(proposed) |-> TestsBlock(saved, proposed[i])])))]

\* ------------------------------------------------------------------------
\* apply_tests_from_progress.py
\* ------------------------------------------------------------------------

\* Path(text): the text split at "/", without its empty and "." components;
\* the path is absolute when the text starts with "/"
RECURSIVE PathParts(_)
PathParts(text) ==
    IF text = <<>> THEN <<>>
    ELSE IF Head(text) \in {"/", "."} THEN PathParts(Tail(text))
         ELSE <<Head(text)>> \o PathParts(Tail(text))

IsAbsolute(text) == text # <<>> /\ Head(text) = "/"

RECURSIVE JoinParts(_)
JoinParts(parts) ==
    IF parts = <<>> THEN <<>>
    ELSE IF Len(parts) = 1 THEN parts
         ELSE <<Head(parts), "/">> \o JoinParts(Tail(parts))

\* Path(text).as_posix()
AsPosix(text) ==
    IF IsAbsolute(text) THEN <<"/">> \o JoinParts(PathParts(text))
    ELSE IF PathParts(text) = <<>> THEN <<".">>
         ELSE JoinParts(PathParts(text))

StartsWith(s, prefix) ==
    /\ Len(s) >= Len(prefix)
    /\ SubSeq(s, 1, Len(prefix)) = prefix

\* the file the operating system opens for the path: ".." steps back to the
\* parent directory; <<"..">> stays in front when the path leaves the
\* working directory, <<"/">> in front marks an absolute location
RECURSIVE ResolveParts(_, _)
ResolveParts(parts, acc) ==
    IF parts = <<>> THEN acc
    ELSE IF Head(parts) = ".."
         THEN IF acc # <<>> /\ acc[Len(acc)] \notin {"..", "/"}
              THEN ResolveParts(Tail(parts), SubSeq(acc, 1, Len(acc) - 1))
              ELSE IF acc # <<>> /\ acc[Len(acc)] = "/"
                   THEN ResolveParts(Tail(parts), acc)
                   ELSE ResolveParts(Tail(parts), Append(acc, ".."))
         ELSE ResolveParts(Tail(parts), Append(acc, Head(parts)))

Location(text) ==
    ResolveParts(PathParts(text), IF IsAbsolute(text) THEN <<"/">> ELSE <<>>)

\* a JSON object as a function of its keys; NoKey stands for an object-valued
\* key that the document does not have
NoKey == [absent |-> TRUE]
EmptyObject == [k \in {} |-> <<>>]
SetKey(obj, key, v) ==
    [k \in DOMAIN obj \cup {key} |-> IF k = key THEN v ELSE obj[k]]

\* the loop "for block in blocks" of _parse_progress: {test_id: create_flag}
RECURSIVE ApplySelections(_, _)
ApplySelections(blocks, out) ==
    IF blocks = <<>> THEN out
    ELSE LET block == Head(blocks)
             tid == Strip(pick(block, "ID"))
             create == Strip(pick(block, "Create?"))
         IN IF tid = <<>> THEN ApplySelections(Tail(blocks), out)
            ELSE ApplySelections(Tail(blocks),
                                 [k \in DOMAIN out \cup {tid} |->
                                     IF k = tid THEN create ELSE out[k]])

\* mutant: the flag is compared without lower()
ApprovedIds_CaseSensitive(progress) ==
    LET selections == ApplySelections(SplitBlocks(progress.lines), << >>)
    IN {tid \in DOMAIN selections : selections[tid] = <<"x">>}

\* approved_ids = {tid for tid, flag in selections.items() if flag.lower() == "x"}
ApprovedIds(progress) ==
    LET selections == ApplySelections(SplitBlocks(progress.lines), << >>)
    IN {tid \in DOMAIN selections : Lower(selections[tid]) = <<"x">>}

\* tid = str(t.get("id", "")).strip()
ApplyItemId(t) == Strip(Get(t.id, <<>>))

\* file_path.as_posix().startswith("tests/")
PathAllowed(t) ==
    StartsWith(AsPosix(Strip(Get(t.file_path, <<>>))), <<"tests", "/">>)

\* file_path.write_text(content.rstrip() + "\n")
WriteFile(fs, t) ==
    LET loc == Location(Strip(Get(t.file_path, <<>>)))
    IN [k \in DOMAIN fs \cup {loc} |->
           IF k = loc THEN RStrip(Get(t.content, <<>>)) \o <<"\n">> ELSE fs[k]]

\* the loop "for t in proposed" of main, from item i on; st holds the
\* items (with their status), the files, the created ids, the locations
\* written so far and whether the loop raised
RECURSIVE ApplyLoop(_, _, _)
ApplyLoop(approved_ids, i, st) ==
    IF i > Len(st.proposed) THEN st
    ELSE LET t == st.proposed[i]
             tid == ApplyItemId(t)
         IN IF tid \notin approved_ids THEN ApplyLoop(approved_ids, i + 1, st)
            ELSE IF ~PathAllowed(t) THEN [st EXCEPT !.raised = TRUE]
            ELSE ApplyLoop(approved_ids, i + 1,
                     [st EXCEPT !.files = WriteFile(@, t),
                                !.written = Append(@,
                                    [item |-> i,
                                     loc |-> Location(Strip(Get(t.file_path, <<>>)))]),
                                !.proposed[i].status = "created",
                                !.created = Append(@, tid)])

\* mutant: the ids of this run are added to the ids recorded before
ApplyTestsResult_Accumulate(payload, progress, fs) ==
    IF ~progress.exists
    THEN [outcome |-> "fatal", files |-> fs, audit |-> payload, written |-> <<>>]
    ELSE LET st == ApplyLoop(ApprovedIds(progress), 1,
                       [proposed |-> payload.proposed_tests, files |-> fs,
                        created |-> <<>>, written |-> <<>>, raised |-> FALSE])
         IN IF st.raised
            THEN [outcome |-> "fatal", files |-> st.files, audit |-> payload,
                  written |-> st.written]
            ELSE [outcome |-> "ok", files |-> st.files,
                  audit |-> [payload EXCEPT
                      !.proposed_tests = st.proposed,
                      !.applied = IF @ = NoKey
                                  THEN SetKey(EmptyObject, "created_ids", st.created)
                                  ELSE SetKey(@, "created_ids", @.created_ids \o st.created)],
                  written |-> st.written]

\* main of apply_tests_from_progress: the outcome, the files and the audit
\* JSON it leaves; a missing ledger makes read_text raise before the loop
ApplyTestsResult(payload, progress, fs) ==
    IF ~progress.exists
    THEN [outcome |-> "fatal", files |-> fs, audit |-> payload, written |-> <<>>]
    ELSE LET st == ApplyLoop(ApprovedIds(progress), 1,
                       [proposed |-> payload.proposed_tests, files |-> fs,
                        created |-> <<>>, written |-> <<>>, raised |-> FALSE])
         IN IF st.raised
            THEN [outcome |-> "fatal", files |-> st.files, audit |-> payload,
                  written |-> st.written]
            ELSE [outcome |-> "ok", files |-> st.files,
                  audit |-> [payload EXCEPT
                      !.proposed_tests = st.proposed,
                      !.applied = SetKey(IF @ = NoKey THEN EmptyObject ELSE @,
                                         "created_ids", st.created)],
                  written |-> st.written]

\* ------------------------------------------------------------------------
\* generate_repo_codebook.py: the version stamper
\* ------------------------------------------------------------------------

DigitChars == <<"0", "1", "2", "3", "4", "5", "6", "7", "8", "9">>

IsDigit(c) == \E d \in 1..Len(DigitChars) : DigitChars[d] = c
DigitValue(c) == (CHOOSE d \in 1..Len(DigitChars) : DigitChars[d] = c) - 1

\* int(text) of a run of decimal digits
RECURSIVE DigitsToInt(_)
DigitsToInt(s) ==
    IF s = <<>> THEN 0
    ELSE DigitsToInt(SubSeq(s, 1, Len(s) - 1)) * Len(DigitChars) + DigitValue(s[Len(s)])

\* f"{n}" of a number that is not negative
RECURSIVE IntToDigits(_)
IntToDigits(n) ==
    IF n < Len(DigitChars) THEN <<DigitChars[n + 1]>>
    ELSE IntToDigits(n \div Len(DigitChars)) \o <<DigitChars[(n % Len(DigitChars)) + 1]>>

\* the text split at its "." characters
RECURSIVE SplitDots(_, _, _)
SplitDots(s, i, cur) ==
    IF i > Len(s) THEN <<cur>>
    ELSE IF s[i] = "." THEN <<cur>> \o SplitDots(s, i + 1, <<>>)
         ELSE SplitDots(s, i + 1, Append(cur, s[i]))

\* ([0-9]+)\.([0-9]+)\.([0-9]+) matches the whole text
IsSemver(s) ==
    LET parts == SplitDots(s, 1, <<>>)
    IN /\ Len(parts) = 3
       /\ \A k \in 1..3 : parts[k] # <<>> /\ \A j \in 1..Len(parts[k]) : IsDigit(parts[k][j])

MarkerKey == "- codebook_version"

\* _extract_codebook_version: the groups of the first line that _VERSION_RE
\* matches, joined with "."; NoVersion (None) without such a line
NoVersion == <<>>
RECURSIVE FirstMarker(_, _)
FirstMarker(lines, i) ==
    IF i > Len(lines) THEN 0
    ELSE IF lines[i].key = MarkerKey /\ IsSemver(Strip(lines[i].val)) THEN i
         ELSE FirstMarker(lines, i + 1)

ExtractCodebookVersion(existing_md) ==
    LET i == FirstMarker(existing_md.lines, 1)
    IN IF ~existing_md.exists \/ existing_md.lines = <<>> \/ i = 0 THEN NoVersion
       ELSE Strip(existing_md.lines[i].val)

FormatSemver(major, minor, patch) ==
    IntToDigits(major) \o <<".">> \o IntToDigits(minor) \o <<".">> \o IntToDigits(patch)

FirstVersion == <<"1", ".", "0", ".", "0">>

\* mutant: the bump carries into MINOR after PATCH 9
BumpPatchSemver_Carry(ver) ==
    IF ~IsSemver(Strip(ver)) THEN FirstVersion
    ELSE LET parts == SplitDots(Strip(ver), 1, <<>>)
             patch == DigitsToInt(parts[3])
         IN IF patch = 9
            THEN FormatSemver(DigitsToInt(parts[1]), DigitsToInt(parts[2]) + 1, 0)
            ELSE FormatSemver(DigitsToInt(parts[1]), DigitsToInt(parts[2]), patch + 1)

\* _bump_patch_semver
BumpPatchSemver(ver) ==
    IF ~IsSemver(Strip(ver)) THEN FirstVersion
    ELSE LET parts == SplitDots(Strip(ver), 1, <<>>)
         IN FormatSemver(DigitsToInt(parts[1]), DigitsToInt(parts[2]),
                         DigitsToInt(parts[3]) + 1)

\* a value of the config that Python takes as false: None or ""
Falsy(v) == v = Absent \/ v = <<>>

\* mutant: the version of the config is preferred to the marker of the artifact
NextCodebookVersion_ConfigFirst(cfg, existing_md) ==
    IF ~Falsy(cfg.codebook_version) THEN BumpPatchSemver(cfg.codebook_version)
    ELSE IF ExtractCodebookVersion(existing_md) # NoVersion
         THEN BumpPatchSemver(ExtractCodebookVersion(existing_md))
         ELSE FirstVersion

\* _next_codebook_version
NextCodebookVersion(cfg, existing_md) ==
    IF existing_md.exists /\ existing_md.lines # <<>>
    THEN LET found == ExtractCodebookVersion(existing_md)
             prev == IF found # NoVersion THEN found ELSE cfg.codebook_version
         IN IF ~Falsy(prev) THEN BumpPatchSemver(prev) ELSE FirstVersion
    ELSE IF ~Falsy(cfg.codebook_version) THEN BumpPatchSemver(cfg.codebook_version)
    ELSE FirstVersion

\* ------------------------------------------------------------------------
\* generate_repo_codebook.py: exclusions, the file list and the tree
\* Paths and patterns are texts of tokens: names, ".", "/", "*" and "?"
\* ------------------------------------------------------------------------

EndsWith(s, suffix) ==
    /\ Len(s) >= Len(suffix)
    /\ SubSeq(s, Len(s) - Len(suffix) + 1, Len(s)) = suffix

\* text.rstrip("/")
RECURSIVE RStripSlash(_)
RStripSlash(s) ==
    IF s # <<>> /\ s[Len(s)] = "/" THEN RStripSlash(SubSeq(s, 1, Len(s) - 1)) ELSE s

\* text.lstrip("./"): every leading "." and "/" goes
RECURSIVE LStripDotSlash(_)
LStripDotSlash(s) ==
    IF s # <<>> /\ Head(s) \in {".", "/"} THEN LStripDotSlash(Tail(s)) ELSE s

DropLast(s, n) == SubSeq(s, 1, Len(s) - n)

\* the text split at "/": the components of a relative path (Path.parts)
RECURSIVE SplitSlash(_, _, _)
SplitSlash(s, i, cur) ==
    IF i > Len(s) THEN (IF cur = <<>> THEN <<>> ELSE <<cur>>)
    ELSE IF s[i] = "/"
         THEN (IF cur = <<>> \/ cur = <<".">> THEN <<>> ELSE <<cur>>) \o SplitSlash(s, i + 1, <<>>)
         ELSE SplitSlash(s, i + 1, Append(cur, s[i]))

Components(path) == SplitSlash(path, 1, <<>>)

\* the components joined with "/" (Path.as_posix of a relative path)
RECURSIVE JoinSlash(_)
JoinSlash(parts) ==
    IF parts = <<>> THEN <<>>
    ELSE IF Len(parts) = 1 THEN parts[1]
         ELSE parts[1] \o <<"/">> \o JoinSlash(Tail(parts))

\* fnmatch(name, pat): "*" stands for any text, also across "/", "?" for one
\* character; the patterns of the model hold no bracket set
RECURSIVE FnMatch(_, _, _, _)
FnMatch(name, i, pat, j) ==
    IF j > Len(pat) THEN i > Len(name)
    ELSE IF pat[j] = "*"
         THEN FnMatch(name, i, pat, j + 1) \/ (i <= Len(name) /\ FnMatch(name, i + 1, pat, j))
         ELSE /\ i <= Len(name)
              /\ pat[j] = "?" \/ pat[j] = name[i]
              /\ FnMatch(name, i + 1, pat, j + 1)

BUILTIN_EXCLUDE_COMPONENTS ==
    { <<".", "git">>, <<"__pycache__">>, <<".", "venv">>, <<".", "mypy_cache">>,
      <<".", "ruff_cache">>, <<".", "pytest_cache">>, <<"htmlcov">>, <<"tests">> }

ArtifactPath == <<"docs", "/", "artifacts", "/", "repo_codebook", ".", "md">>
ConfigPath == <<"docs", "/", "artifacts", "/", "repo_codebook", ".", "config", ".", "json">>

BUILTIN_EXCLUDE_GLOBS ==
    { <<"*", ".", "pyc">>, <<"*", ".", "egg-info">>, <<".", "env">>, <<".", "env", ".", "*">>,
      <<".", "coverage">>, <<"uv", ".", "lock">>, <<".", "python-version">>,
      <<".", "dockerignore">>, <<".", "gitignore">>,
      <<"docs", "/", "artifacts", "/", "*">>, ArtifactPath, ConfigPath }

\* _normalize_glob
NormalizeGlob(pat) ==
    LET t == Strip(pat)
    IN IF StartsWith(t, <<".", "/">>) THEN SubSeq(t, 3, Len(t)) ELSE t

\* _has_glob_meta
HasGlobMeta(p) == \E k \in 1..Len(p) : p[k] \in {"*", "?", "["}

\* the working tree: a set of entries [path, dir]
IsDir(tree, p) == \E e \in tree : e.path = p /\ e.dir

\* mutant: a directory is excluded without what lies under it
ExpandIgnorePattern_BaseOnly(tree, pat) ==
    LET p == NormalizeGlob(pat)
    IN IF p = <<>> THEN <<>>
       ELSE IF RStripSlash(p) = <<>> THEN <<>> ELSE <<RStripSlash(p)>>

\* _expand_ignore_pattern
ExpandIgnorePattern(tree, pat) ==
    LET p == NormalizeGlob(pat)
        WithBase(base, q) == IF base # <<>> THEN <<base, q>> ELSE <<q>>
    IN IF p = <<>> THEN <<>>
       ELSE IF EndsWith(p, <<"/", "*", "*">>) THEN WithBase(RStripSlash(DropLast(p, 3)), p)
       ELSE IF EndsWith(p, <<"/", "*">>) THEN WithBase(RStripSlash(DropLast(p, 2)), p)
       ELSE IF EndsWith(p, <<"/">>)
            THEN (IF RStripSlash(p) # <<>>
                  THEN <<RStripSlash(p), RStripSlash(p) \o <<"/", "*", "*">> >>
                  ELSE <<>>)
       ELSE IF ~HasGlobMeta(p) /\ IsDir(tree, p)
            THEN <<p, p \o <<"/", "*", "*">> >>
       ELSE <<p>>

SeqToSet(q) == { q[k] : k \in 1..Len(q) }

\* _merge_exclude_globs
MergeExcludeGlobs(tree, cfg) ==
    BUILTIN_EXCLUDE_GLOBS \cup
    UNION { SeqToSet(ExpandIgnorePattern(tree, Strip(cfg.ignore_globs_extra[k]))) \ {<<>>} :
              k \in { n \in 1..Len(cfg.ignore_globs_extra) : Strip(cfg.ignore_globs_extra[n]) # <<>> } }

\* mutant: only the globs decide
ShouldExclude_GlobsOnly(rel_path, exclude_globs) ==
    \E pat \in exclude_globs : FnMatch(JoinSlash(Components(rel_path)), 1, pat, 1)

\* _should_exclude
ShouldExclude(rel_path, exclude_globs) ==
    LET parts == Components(rel_path)
    IN \/ Len(parts) >= 2 /\ parts[1] = <<"docs">> /\ parts[2] = <<"artifacts">>
       \/ \E k \in 1..Len(parts) : parts[k] \in BUILTIN_EXCLUDE_COMPONENTS
       \/ \E pat \in exclude_globs : FnMatch(JoinSlash(parts), 1, pat, 1)

\* git ls-files -co --exclude-standard: the files of the working tree,
\* tracked or not, outside the repository metadata
GitListing(tree) ==
    { e.path : e \in { x \in tree : ~x.dir /\ Components(x.path)[1] # <<".", "git">> } }

\* _file_list once the listing command has answered: the set of the paths
\* (the code returns them sorted)
FileList(tree, cfg) ==
    LET exclude_globs == MergeExcludeGlobs(tree, cfg)
    IN { rel \in GitListing(tree) :
            /\ ~ShouldExclude(rel, exclude_globs)
            /\ \E e \in tree : e.path = rel /\ ~e.dir }

\* a line of the tree rendering: its text, and the entry it stands for
TreeLine(text, path) == [line |-> text, of |-> path]
RootLine == TreeLine(<<".", "/">>, <<>>)

\* the lines `find . -print` gives, filtered by _find_output
FindLines(tree, exclude_globs) ==
    { TreeLine(<<".", "/">> \o LStripDotSlash(<<".", "/">> \o e.path), e.path) :
        e \in { x \in tree :
                  /\ LStripDotSlash(<<".", "/">> \o x.path) # <<>>
                  /\ ~ShouldExclude(LStripDotSlash(<<".", "/">> \o x.path), exclude_globs) } }

\* the prefixes of a path that name its enclosing directories and itself
Ancestors(path) ==
    { JoinSlash(SubSeq(Components(path), 1, k)) : k \in 1..Len(Components(path)) }

\* os.walk with pruning: the files that are not excluded and lie in no
\* excluded directory
WalkLines(tree, exclude_globs) ==
    { TreeLine(<<".", "/">> \o e.path, e.path) :
        e \in { x \in tree :
                  /\ ~x.dir
                  /\ \A q \in Ancestors(x.path) : ~ShouldExclude(q, exclude_globs) } }

\* _find_output: through find when it is installed, else through os.walk
FindOutput(tree, cfg, tool) ==
    LET exclude_globs == MergeExcludeGlobs(tree, cfg)
    IN {RootLine} \cup
       (IF tool = "find" THEN FindLines(tree, exclude_globs)
        ELSE WalkLines(tree, exclude_globs))

\* p.replace("**", "*")
RECURSIVE ReplaceStarStar(_)
ReplaceStarStar(p) ==
    IF Len(p) < 2 THEN p
    ELSE IF p[1] = "*" /\ p[2] = "*" THEN <<"*">> \o ReplaceStarStar(SubSeq(p, 3, Len(p)))
         ELSE <<p[1]>> \o ReplaceStarStar(Tail(p))

\* _glob_to_tree_pattern: the patterns between the "|" of its result
GlobToTreePattern(glob_pat) ==
    LET p == NormalizeGlob(glob_pat)
        q == ReplaceStarStar(p)
        Both(base) == << base, base \o <<"/", "*">> >>
    IN IF \E k \in 1..Len(p) : p[k] = "|" THEN <<>>
       ELSE IF EndsWith(p, <<"/", "*", "*">>)
            THEN (IF RStripSlash(DropLast(p, 3)) = <<>> THEN <<>>
                  ELSE Both(RStripSlash(DropLast(p, 3))))
       ELSE IF EndsWith(q, <<"/", "*">>) THEN SelectSeq(Both(DropLast(q, 2)), LAMBDA x : x # <<>>)
       ELSE IF EndsWith(q, <<"/">>) THEN SelectSeq(Both(RStripSlash(q)), LAMBDA x : x # <<>>)
       ELSE IF q = <<>> THEN <<>> ELSE <<q>>

\* _tree_extra_ignore_expr: the patterns handed to the tree script
TreeExtraIgnoreExpr(cfg) ==
    UNION { SeqToSet(GlobToTreePattern(cfg.ignore_globs_extra[k])) :
              k \in 1..Len(cfg.ignore_globs_extra) }

\* scripts/get_tree.sh: tree with the ignore patterns; an entry is left out
\* when a pattern matches it or a directory above it, by name or by path,
\* or when a built-in component is on its path
TreeScriptLines(tree, patterns) ==
    { TreeLine(<<".", "/">> \o e.path, e.path) :
        e \in { x \in tree :
                  /\ \A k \in 1..Len(Components(x.path)) :
                        Components(x.path)[k] \notin BUILTIN_EXCLUDE_COMPONENTS
                  /\ \A q \in Ancestors(x.path) : \A pat \in patterns :
                        /\ ~FnMatch(q, 1, pat, 1)
                        /\ ~FnMatch(Components(q)[Len(Components(q))], 1, pat, 1) } }

\* the ways the tree is rendered: the tree script, find, or os.walk
TreeTools == {"tree", "find", "walk"}

\* _tree_output
TreeOutput(tree, cfg, tool) ==
    IF tool = "tree" THEN {RootLine} \cup TreeScriptLines(tree, TreeExtraIgnoreExpr(cfg))
    ELSE FindOutput(tree, cfg, tool)

\* ------------------------------------------------------------------------
\* generate_repo_codebook.py: the config store
\* ------------------------------------------------------------------------

\* JSON values of the config file; NoKey stands for a key that is absent
Num(n) == [num |-> n]
Str(s) == [str |-> s]
Bool(b) == [bool |-> b]
List(q) == [list |-> q]
Null == [null |-> TRUE]

DEFAULT_MAX_TEXT_FILE_BYTES == 524288

DefaultNotes == Str(<<"Add patterns under ignore_globs_extra to exclude more paths.">>)

\* CodebookConfig.default()
DefaultConfig ==
    [version |-> 1, ignore_globs_extra |-> <<>>, skip_empty_files |-> TRUE,
     max_text_file_bytes |-> DEFAULT_MAX_TEXT_FILE_BYTES, notes |-> DefaultNotes,
     codebook_version |-> Absent]

\* the config file: missing, not JSON ("corrupt"), a JSON list, or a JSON
\* object with the keys it holds
ConfigFile(kind, version, codebook_version, ignore, skip, max_bytes, notes) ==
    [kind |-> kind, version |-> version, codebook_version |-> codebook_version,
     ignore_globs_extra |-> ignore, skip_empty_files |-> skip,
     max_text_file_bytes |-> max_bytes, notes |-> notes]

NoConfig == ConfigFile("missing", NoKey, Absent, NoKey, NoKey, NoKey, NoKey)
CorruptConfig == ConfigFile("corrupt", NoKey, Absent, NoKey, NoKey, NoKey, NoKey)
ListConfig == ConfigFile("list", NoKey, Absent, NoKey, NoKey, NoKey, NoKey)

\* _save_config: the file json.dumps writes for a config
SaveConfig(cfg) ==
    ConfigFile("object", Num(cfg.version), cfg.codebook_version,
               List(cfg.ignore_globs_extra), Bool(cfg.skip_empty_files),
               Num(cfg.max_text_file_bytes), cfg.notes)

\* assets/templates/repo_codebook.config.json.tmpl: the documented default
ConfigTemplate == SaveConfig(DefaultConfig)

\* int(data.get(key, default)): a number, or the default, or an error
IntOf(v, default) ==
    IF v = NoKey THEN [ok |-> TRUE, n |-> default]
    ELSE IF DOMAIN v = {"num"} THEN [ok |-> TRUE, n |-> v.num]
    ELSE [ok |-> FALSE, n |-> default]

\* list(data.get("ignore_globs_extra", [])): an error for null
ListOf(v) ==
    IF v = NoKey THEN [ok |-> TRUE, q |-> <<>>]
    ELSE IF DOMAIN v = {"list"} THEN [ok |-> TRUE, q |-> v.list]
    ELSE [ok |-> FALSE, q |-> <<>>]

\* the CodebookConfig(...) built at the end of _load_config from a JSON
\* object; raises for a value int() or list() cannot take
ParseConfig(data) ==
    LET version == IntOf(data.version, 1)
        ignore == ListOf(data.ignore_globs_extra)
        max_bytes == IntOf(data.max_text_file_bytes, DEFAULT_MAX_TEXT_FILE_BYTES)
    IN [outcome |-> IF version.ok /\ ignore.ok /\ max_bytes.ok THEN "ok" ELSE "fatal",
        cfg |-> [version |-> version.n,
                 ignore_globs_extra |-> ignore.q,
                 skip_empty_files |-> IF data.skip_empty_files = NoKey THEN TRUE
                                      ELSE data.skip_empty_files.bool,
                 max_text_file_bytes |-> max_bytes.n,
                 notes |-> IF data.notes = NoKey THEN Null ELSE data.notes,
                 codebook_version |-> data.codebook_version],
        file |-> data]

\* mutant: a config that does not parse as JSON is fatal
LoadConfig_CorruptFatal(file) ==
    IF file.kind = "missing" THEN ParseConfig(ConfigTemplate)
    ELSE IF file.kind = "object" THEN ParseConfig(file)
    ELSE [outcome |-> "fatal", cfg |-> DefaultConfig, file |-> file]

\* _load_config: the outcome, the config and the file it leaves
LoadConfig(file) ==
    IF file.kind = "missing" THEN ParseConfig(ConfigTemplate)
    ELSE IF file.kind = "corrupt"
         THEN [outcome |-> "ok", cfg |-> DefaultConfig, file |-> SaveConfig(DefaultConfig)]
    ELSE IF file.kind = "list"
         THEN [outcome |-> "fatal", cfg |-> DefaultConfig, file |-> file]
    ELSE ParseConfig(file)

\* _canonicalize_ignore_entry; << >> stands for None
CanonicalizeIgnoreEntry(tree, raw) ==
    LET p == NormalizeGlob(raw)
        AsDir(base) == IF base # <<>> THEN base \o <<"/", "*", "*">> ELSE <<>>
    IN IF p = <<>> THEN <<>>
       ELSE IF HasGlobMeta(p) THEN p
       ELSE IF EndsWith(p, <<"/">>) THEN AsDir(RStripSlash(p))
       ELSE IF IsDir(tree, p) THEN AsDir(RStripSlash(p))
       ELSE p

\* the loop over args.add_ignore
RECURSIVE AddIgnores(_, _, _)
AddIgnores(tree, ignore, adds) ==
    IF adds = <<>> THEN ignore
    ELSE LET canon == CanonicalizeIgnoreEntry(tree, Head(adds))
         IN AddIgnores(tree,
                       IF canon # <<>> /\ canon \notin SeqToSet(ignore)
                       THEN Append(ignore, canon) ELSE ignore,
                       Tail(adds))

\* the entries a --remove-ignore list removes
RemoveSet(removes) ==
    UNION { LET r == NormalizeGlob(removes[k])
            IN IF r = <<>> THEN {}
               ELSE IF EndsWith(r, <<"/", "*", "*">>) THEN {r, RStripSlash(DropLast(r, 3))}
               ELSE {r, RStripSlash(r) \o <<"/", "*", "*">>} :
            k \in 1..Len(removes) }

\* the command line: no mutation asked
NoArgs ==
    [add_ignore |-> <<>>, remove_ignore |-> <<>>, max_text_file_bytes |-> NoKey,
     skip_empty_files |-> NoKey, config_only |-> FALSE]

\* mutant: the overrides of the command line are not carried into the config
ApplyConfigMutations_ListOnly(cfg, args, tree) ==
    LET added == AddIgnores(tree, cfg.ignore_globs_extra, args.add_ignore)
        NotRemoved(p) == NormalizeGlob(p) \notin RemoveSet(args.remove_ignore)
    IN [cfg EXCEPT !.ignore_globs_extra =
                      IF args.remove_ignore # <<>> THEN SelectSeq(added, NotRemoved)
                      ELSE added]

\* _apply_config_mutations
ApplyConfigMutations(cfg, args, tree) ==
    LET added == AddIgnores(tree, cfg.ignore_globs_extra, args.add_ignore)
        NotRemoved(p) == NormalizeGlob(p) \notin RemoveSet(args.remove_ignore)
    IN [cfg EXCEPT
          !.ignore_globs_extra =
              IF args.remove_ignore # <<>> THEN SelectSeq(added, NotRemoved) ELSE added,
          !.max_text_file_bytes =
              IF args.max_text_file_bytes # NoKey THEN args.max_text_file_bytes.num ELSE @,
          !.skip_empty_files =
              IF args.skip_empty_files # NoKey THEN args.skip_empty_files.bool ELSE @]

\* ------------------------------------------------------------------------
\* generate_repo_codebook.py: main
\* ------------------------------------------------------------------------

\* assets/templates/repo_codebook.md.tmpl: a title, the line that carries
\* the version, the tree, the descriptions and the code blocks
Template ==
    << TextLine("# __PROJECT_NAME__ - Repository Codebook"),
       Field(MarkerKey, <<" ", "__CODEBOOK_VERSION__">>),
       Field("__TREE_OUTPUT__", <<>>),
       Field("__FILE_DESCRIPTIONS__", <<>>),
       Field("__FILE_CODE_BLOCKS__", <<>>) >>

\* out.replace("__CODEBOOK_VERSION__", version) on a line
RECURSIVE ReplaceToken(_, _, _)
ReplaceToken(s, token, by) ==
    IF s = <<>> THEN <<>>
    ELSE (IF Head(s) = token THEN by ELSE <<Head(s)>>) \o ReplaceToken(Tail(s), token, by)

\* the replacements of main on the template: the version, the lines of the
\* tree, and the paths of the file list under the descriptions and the blocks
RenderTemplate(version, tree_out, paths) ==
    [i \in 1..Len(Template) |->
        IF Template[i].key = "__TREE_OUTPUT__"
        THEN Field("tree", { l.line : l \in tree_out })
        ELSE IF Template[i].key = "__FILE_DESCRIPTIONS__" THEN Field("descriptions", paths)
        ELSE IF Template[i].key = "__FILE_CODE_BLOCKS__" THEN Field("blocks", paths)
        ELSE [Template[i] EXCEPT !.val = ReplaceToken(@, "__CODEBOOK_VERSION__", version)]]

\* the project the codebook is made of
Dir(path) == [path |-> path, dir |-> TRUE]
Plain(path) == [path |-> path, dir |-> FALSE]
RepoEntries ==
    { Dir(<<"b">>), Dir(<<"b", "/", "s">>), Plain(<<"b", "/", "s", "/", "x">>),
      Dir(<<".", "g">>), Plain(<<".", "g", "/", "c">>),
      Dir(<<"tests">>), Plain(<<"tests", "/", "t">>),
      Plain(<<"f">>),
      Dir(<<"docs">>), Dir(<<"docs", "/", "artifacts">>),
      Plain(<<"docs", "/", "artifacts", "/", "o">>) }

\* the working tree a run sees: the project, the config file (_load_config
\* leaves one) and the artifact of an earlier run
WorkingTree(existing_md) ==
    RepoEntries \cup {Plain(ConfigPath)} \cup
    (IF existing_md.exists THEN {Plain(ArtifactPath)} ELSE {})

\* mutant: the version is recorded in the config before the listing
GenerateResult_StampFirst(file, existing_md, args, tool, git_ok) ==
    LET tree == WorkingTree(existing_md)
        loaded == LoadConfig(file)
        cfg2 == ApplyConfigMutations(loaded.cfg, args, tree)
        version == NextCodebookVersion(cfg2, existing_md)
        tree_out == TreeOutput(tree, cfg2, tool)
        paths == FileList(tree, cfg2)
        ok == loaded.outcome # "fatal" /\ git_ok /\ ~args.config_only
    IN  [outcome |-> IF ok \/ (args.config_only /\ loaded.outcome # "fatal") THEN "ok" ELSE "fatal",
         failed |-> IF loaded.outcome = "fatal" THEN "load"
                    ELSE IF ok \/ args.config_only THEN "" ELSE "listing",
         config |-> IF loaded.outcome = "fatal" THEN file
                    ELSE IF args.config_only
                         THEN (IF cfg2 # loaded.cfg THEN SaveConfig(cfg2) ELSE loaded.file)
                    ELSE SaveConfig([cfg2 EXCEPT !.codebook_version = version]),
         artifact |-> IF ok THEN File(RenderTemplate(version, tree_out, paths)) ELSE existing_md,
         written |-> ok, listed |-> loaded.outcome # "fatal" /\ ~args.config_only,
         loaded |-> loaded.cfg, version |-> version,
         tree |-> IF ok THEN tree_out ELSE {},
         paths |-> IF ok THEN paths ELSE {}]

\* mutant: a generation that does not record its version in the config
GenerateResult_NoStamp(file, existing_md, args, tool, git_ok) ==
    LET tree == WorkingTree(existing_md)
        loaded == LoadConfig(file)
        cfg2 == ApplyConfigMutations(loaded.cfg, args, tree)
        version == NextCodebookVersion(cfg2, existing_md)
        tree_out == TreeOutput(tree, cfg2, tool)
        paths == FileList(tree, cfg2)
        ok == loaded.outcome # "fatal" /\ git_ok /\ ~args.config_only
    IN  [outcome |-> IF ok \/ (args.config_only /\ loaded.outcome # "fatal") THEN "ok" ELSE "fatal",
         failed |-> IF loaded.outcome = "fatal" THEN "load"
                    ELSE IF ok \/ args.config_only THEN "" ELSE "listing",
         config |-> IF loaded.outcome = "fatal" THEN file
                    ELSE IF cfg2 # loaded.cfg \/ ok THEN SaveConfig(cfg2) ELSE loaded.file,
         artifact |-> IF ok THEN File(RenderTemplate(version, tree_out, paths)) ELSE existing_md,
         written |-> ok, listed |-> loaded.outcome # "fatal" /\ ~args.config_only,
         loaded |-> loaded.cfg, version |-> version,
         tree |-> IF ok THEN tree_out ELSE {},
         paths |-> IF ok THEN paths ELSE {}]

\* main of generate_repo_codebook without a terminal: the outcome (and the
\* step that raised), the config file and the artifact it leaves, and what it
\* computed on the way
GenerateResult(file, existing_md, args, tool, git_ok) ==
    LET tree == WorkingTree(existing_md)
        loaded == LoadConfig(file)
        cfg2 == ApplyConfigMutations(loaded.cfg, args, tree)
        file2 == IF cfg2 # loaded.cfg THEN SaveConfig(cfg2) ELSE loaded.file
        version == NextCodebookVersion(cfg2, existing_md)
        tree_out == TreeOutput(tree, cfg2, tool)
        paths == FileList(tree, cfg2)
        Result(outcome, failed, f, md, written) ==
            [outcome |-> outcome, failed |-> failed, config |-> f, artifact |-> md,
             written |-> written, listed |-> failed # "load" /\ ~args.config_only,
             loaded |-> loaded.cfg, version |-> version,
             tree |-> IF written THEN tree_out ELSE {},
             paths |-> IF written THEN paths ELSE {}]
    IN IF loaded.outcome = "fatal" THEN Result("fatal", "load", file, existing_md, FALSE)
       ELSE IF args.config_only THEN Result("ok", "", file2, existing_md, FALSE)
       ELSE IF ~git_ok THEN Result("fatal", "listing", file2, existing_md, FALSE)
       ELSE Result("ok", "", SaveConfig([cfg2 EXCEPT !.codebook_version = version]),
                   File(RenderTemplate(version, tree_out, paths)), TRUE)

\* ------------------------------------------------------------------------
\* The scripts as state machines.  run records the last operation: how it
\* ended and the ledger, audit JSON and files it started from (for the
\* steps of the user and of the audit tool these are the current ones).
\* ------------------------------------------------------------------------

MaxItems == 2
MaxEdits == 2

Idle(op, a, l, f) ==
    [op |-> op, outcome |-> "ok", before |-> l, auditBefore |-> a,
     filesBefore |-> f, written |-> <<>>, artifactBefore |-> NoFile,
     version |-> <<>>, configBefore |-> NoConfig, args |-> NoArgs,
     loaded |-> DefaultConfig, generated |-> FALSE, tree |-> {}, paths |-> {},
     failed |-> "", git_ok |-> TRUE]

EmptyAudit(s) ==
    IF s = "dead"
    THEN [safe_removal_candidates |-> <<>>,
          needs_manual_confirmation |-> <<>>,
          dependency_findings |-> <<>>]
    ELSE [proposed_tests |-> <<>>]

AuditLists(s) ==
    IF s = "dead"
    THEN {"safe_removal_candidates", "needs_manual_confirmation", "dependency_findings"}
    ELSE {"proposed_tests"}

RECURSIVE SumLen(_, _)
SumLen(doc, lists) ==
    IF lists = {} THEN 0
    ELSE LET l == CHOOSE x \in lists : TRUE
         IN Len(doc[l]) + SumLen(doc, lists \ {l})

\* the items the audit tool may report
LedgerItems(s) ==
    IF s = "dead"
    THEN { [id |-> <<"A">>, name |-> <<"n">>],
           [id |-> <<" ", "B", " ">>, name |-> Absent],
           [id |-> <<" ">>, name |-> Absent],
           [id |-> Absent, name |-> Absent] }
    ELSE { [id |-> <<"A">>, scope |-> Absent, file_path |-> <<"tests", "/", "a.py">>],
           [id |-> <<"A">>, scope |-> <<"unit">>, file_path |-> <<"tests", "/", "a.py">>],
           [id |-> <<" ", "B", " ">>, scope |-> Absent, file_path |-> <<"tests", "/", "a.py">>],
           [id |-> <<" ">>, scope |-> Absent, file_path |-> <<"tests", "/", "a.py">>],
           [id |-> Absent, scope |-> Absent, file_path |-> <<"tests", "/", "a.py">>] }

FlagKey(s) == IF s = "dead" THEN "Remove?" ELSE "Create?"

RemoveAt(seq, i) == SubSeq(seq, 1, i - 1) \o SubSeq(seq, i + 1, Len(seq))


\* the first audit reports nothing, or one item
FirstAudits(s) ==
    {EmptyAudit(s)} \cup
    {[EmptyAudit(s) EXCEPT ![l] = <<it>>] : l \in AuditLists(s), it \in LedgerItems(s)}

InitLedger ==
    /\ skill \in {"dead", "tests"}
    /\ audit \in FirstAudits(skill)
    /\ ledger = NoFile
    /\ files = << >>
    /\ run = Idle("none", audit, ledger, files)
    /\ artifact = NoFile
    /\ config = NoConfig
    /\ edits = 0

\* the audit tool reports one more item
AuditAddItem ==
    /\ edits < MaxEdits
    /\ SumLen(audit, AuditLists(skill)) < MaxItems
    /\ \E l \in AuditLists(skill), it \in LedgerItems(skill) :
          audit' = [audit EXCEPT ![l] = Append(@, it)]
    /\ edits' = edits + 1
    /\ run' = Idle("audit", audit', ledger, files)
    /\ UNCHANGED <<skill, ledger, files, artifact, config>>

\* the audit tool no longer reports an item
AuditDropItem ==
    /\ edits < MaxEdits
    /\ \E l \in AuditLists(skill) : \E i \in 1..Len(audit[l]) :
          audit' = [audit EXCEPT ![l] = RemoveAt(@, i)]
    /\ edits' = edits + 1
    /\ run' = Idle("audit", audit', ledger, files)
    /\ UNCHANGED <<skill, ledger, files, artifact, config>>

\* the audit tool reports an item differently: other fields, another list
AuditReviseItem ==
    /\ edits < MaxEdits
    /\ \E l \in AuditLists(skill), l2 \in AuditLists(skill) :
          \E i \in 1..Len(audit[l]), it \in LedgerItems(skill) :
             /\ it.id = audit[l][i].id
             /\ l2 # l \/ it # audit[l][i]
             /\ audit' = IF l2 = l
                         THEN [audit EXCEPT ![l][i] = it]
                         ELSE [audit EXCEPT ![l] = RemoveAt(@, i),
                                            ![l2] = Append(@, it)]
    /\ edits' = edits + 1
    /\ run' = Idle("audit", audit', ledger, files)
    /\ UNCHANGED <<skill, ledger, files, artifact, config>>

\* what the user types after "Remove?:" / "Create?:" and after "Notes:"
FlagEdits == {<<" ", "x", " ">>}
NoteEdits == {<<" ", "k", " ">>}

\* the user types a decision flag or a note into a block of the ledger
UserEditField ==
    /\ edits < MaxEdits
    /\ ledger.exists
    /\ \E i \in 1..Len(ledger.lines) : \E v \in FlagEdits \cup NoteEdits :
          /\ \/ ledger.lines[i].key = FlagKey(skill) /\ v \in FlagEdits
             \/ ledger.lines[i].key = "Notes" /\ v \in NoteEdits
          /\ ledger.lines[i].val # v
          /\ ledger' = [ledger EXCEPT !.lines[i].val = v]
    /\ edits' = edits + 1
    /\ run' = Idle("edit", audit, ledger', files)
    /\ UNCHANGED <<skill, audit, files, artifact, config>>

\* the user pastes a block kept from an older ledger at the end of the file
UserPasteBlock ==
    /\ edits < MaxEdits
    /\ ledger.exists
    /\ \E id \in {<<"A">>} :
          ledger' = [ledger EXCEPT !.lines = @ \o
                        << DelimLine,
                           Field("ID", <<" ">> \o id),
                           Field(FlagKey(skill), <<" ", "X">>),
                           Field("Notes", <<" ", "old">>),
                           DelimLine >>]
    /\ edits' = edits + 1
    /\ run' = Idle("edit", audit, ledger', files)
    /\ UNCHANGED <<skill, audit, files, artifact, config>>

UpdateDeadCodeProgress ==
    /\ skill = "dead"
    /\ LET r == UpdateDeadCodeProgressResult(audit, ledger)
       IN /\ ledger' = r.ledger
          /\ run' = [Idle("update", audit, ledger, files) EXCEPT !.outcome = r.outcome]
    /\ UNCHANGED <<skill, audit, files, artifact, config, edits>>

UpdateTestsProgress ==
    /\ skill = "tests"
    /\ LET r == UpdateTestsProgressResult(audit, ledger)
       IN /\ ledger' = r.ledger
          /\ run' = [Idle("update", audit, ledger, files) EXCEPT !.outcome = r.outcome]
    /\ UNCHANGED <<skill, audit, files, artifact, config, edits>>

NextLedger ==
    \/ AuditAddItem
    \/ AuditDropItem
    \/ AuditReviseItem
    \/ UserEditField
    \/ UserPasteBlock
    \/ UpdateDeadCodeProgress
    \/ UpdateTestsProgress

SpecLedger == InitLedger /\ [][NextLedger]_vars

\* ------------------------------------------------------------------------
\* The tests skill end to end: the audit JSON proposes tests, the generator
\* writes the ledger, the user approves, apply writes the files
\* ------------------------------------------------------------------------

\* the tests the audit tool may propose: an ordinary one, one whose path Path()
\* normalises and that stays inside tests/, one whose path starts with tests/
\* and leaves it through "..", and one with an absolute path
ApplyItems ==
    { [id |-> <<"A">>, scope |-> Absent, content |-> <<"c", " ">>, status |-> "proposed",
       file_path |-> <<"tests", "/", "a.py">>],
      [id |-> <<" ", "B">>, scope |-> Absent, content |-> <<"c", " ">>, status |-> "proposed",
       file_path |-> <<".", "/", "tests", "/", "sub", "/", "..", "/", "b.py">>],
      [id |-> <<" ", "B">>, scope |-> Absent, content |-> <<"c", " ">>, status |-> "proposed",
       file_path |-> <<"tests", "/", "..", "/", "a.py">>],
      [id |-> <<"A">>, scope |-> Absent, content |-> <<"c", " ">>, status |-> "proposed",
       file_path |-> <<"/", "etc", "/", "passwd">>] }

\* the first audit proposes nothing, or one test
InitApply ==
    /\ skill = "tests"
    /\ \E first \in {<<>>} \cup {<<t>> : t \in ApplyItems} :
          audit = [proposed_tests |-> first, applied |-> NoKey, summary |-> "s"]
    /\ ledger = NoFile
    /\ files = << >>
    /\ run = Idle("none", audit, ledger, files)
    /\ artifact = NoFile
    /\ config = NoConfig
    /\ edits = 0

\* the audit tool proposes one more test
AuditAddTest ==
    /\ edits < MaxEdits
    /\ Len(audit.proposed_tests) < MaxItems
    /\ \E t \in ApplyItems :
          audit' = [audit EXCEPT !.proposed_tests = Append(@, t)]
    /\ edits' = edits + 1
    /\ run' = Idle("audit", audit', ledger, files)
    /\ UNCHANGED <<skill, ledger, files, artifact, config>>

\* the user goes through the ledger and types an approval, or something
\* else, after "Create?:" in some of its blocks
UserApprove ==
    /\ edits < MaxEdits
    /\ ledger.exists
    /\ \E v \in {<<" ", "X", " ">>, <<" ", "n", "o">>} :
          \E S \in SUBSET {i \in 1..Len(ledger.lines) : ledger.lines[i].key = "Create?"} :
             /\ S # {}
             /\ \A i \in S : ledger.lines[i].val # v
             /\ ledger' = [ledger EXCEPT !.lines =
                              [i \in 1..Len(@) |-> IF i \in S THEN Field("Create?", v) ELSE @[i]]]
    /\ edits' = edits + 1
    /\ run' = Idle("edit", audit, ledger', files)
    /\ UNCHANGED <<skill, audit, files, artifact, config>>

ApplyTestsFromProgress ==
    /\ skill = "tests"
    /\ LET r == ApplyTestsResult(audit, ledger, files)
       IN /\ files' = r.files
          /\ audit' = r.audit
          /\ run' = [Idle("apply", audit, ledger, files) EXCEPT
                        !.outcome = r.outcome, !.written = r.written]
    /\ UNCHANGED <<skill, ledger, artifact, config, edits>>

NextApply ==
    \/ AuditAddTest
    \/ UserApprove
    \/ UpdateTestsProgress
    \/ ApplyTestsFromProgress

SpecApply == InitApply /\ [][NextApply]_vars

\* ------------------------------------------------------------------------
\* The codebook generator: generations, and the user editing the artifact
\* and the config between them
\* ------------------------------------------------------------------------

MaxPatch == 11

\* what the user may leave after "- codebook_version:" in the artifact
MarkerEdits ==
    { <<" ", "2", ".", "3", ".", "1">>,
      <<" ", "0", "2", ".", "0", "3", ".", "9", " ">>,
      <<" ", "1", ".", "9">> }

\* what the user may leave as codebook_version in the config
ConfigVersionEdits == { Absent, <<"0", ".", "4", ".", "7">>, <<"v", "1">> }

InitCodebook ==
    /\ skill = "codebook"
    /\ audit = EmptyAudit("tests")
    /\ ledger = NoFile
    /\ files = << >>
    /\ run = Idle("none", audit, ledger, files)
    /\ artifact = NoFile
    /\ config = NoConfig
    /\ edits = 0

\* the version a generation would stamp stays within the bound of the model
WithinPatchBound(version) ==
    DigitsToInt(SplitDots(version, 1, <<>>)[3]) <= MaxPatch

GenerateCodebook(args, tool, git_ok) ==
    /\ skill = "codebook"
    /\ \E r \in {GenerateResult(config, artifact, args, tool, git_ok)} :
          /\ r.written => WithinPatchBound(r.version)
          /\ artifact' = r.artifact
          /\ config' = r.config
          /\ run' = [Idle("generate", audit, ledger, files) EXCEPT
                        !.outcome = r.outcome, !.failed = r.failed,
                        !.git_ok = git_ok \/ ~r.listed,
                        !.artifactBefore = artifact, !.version = r.version,
                        !.configBefore = config, !.args = args,
                        !.loaded = r.loaded, !.generated = r.written,
                        !.tree = r.tree, !.paths = r.paths]
    /\ args # NoArgs => edits < MaxEdits
    /\ edits' = IF args # NoArgs THEN edits + 1 ELSE edits
    /\ UNCHANGED <<skill, audit, ledger, files>>

\* a run without arguments where tree and git answer
GenerateDefault == GenerateCodebook(NoArgs, "tree", TRUE)

\* the user rewrites the version marker of the artifact, or removes the line
UserEditMarker ==
    /\ skill = "codebook"
    /\ edits < MaxEdits
    /\ artifact.exists
    /\ \E i \in 1..Len(artifact.lines) :
          /\ artifact.lines[i].key = MarkerKey
          /\ \/ \E v \in MarkerEdits : artifact' = [artifact EXCEPT !.lines[i].val = v]
             \/ artifact' = [artifact EXCEPT !.lines = RemoveAt(@, i)]
    /\ edits' = edits + 1
    /\ run' = Idle("edit", audit, ledger, files)
    /\ UNCHANGED <<skill, audit, ledger, files, config>>

\* the user deletes the artifact
UserDeleteArtifact ==
    /\ skill = "codebook"
    /\ edits < MaxEdits
    /\ artifact.exists
    /\ artifact' = NoFile
    /\ edits' = edits + 1
    /\ run' = Idle("edit", audit, ledger, files)
    /\ UNCHANGED <<skill, audit, ledger, files, config>>

\* the user edits codebook_version in the config
UserEditConfigVersion ==
    /\ skill = "codebook"
    /\ edits < MaxEdits
    /\ \E v \in ConfigVersionEdits :
          /\ v # config.codebook_version
          /\ config' = [config EXCEPT !.kind = "object", !.codebook_version = v]
    /\ edits' = edits + 1
    /\ run' = Idle("edit", audit, ledger, files)
    /\ UNCHANGED <<skill, audit, ledger, files, artifact>>

NextCodebook ==
    \/ GenerateDefault
    \/ UserEditMarker
    \/ UserDeleteArtifact
    \/ UserEditConfigVersion

SpecCodebook == InitCodebook /\ [][NextCodebook]_vars

\* ------------------------------------------------------------------------
\* The codebook generator with its command line: runs that change the ignore
\* list or override a setting, on machines with or without tree, find and a
\* repository, and the user rewriting the config file by hand
\* ------------------------------------------------------------------------

MaxRuns == 1

\* the command lines that change the ignore list
IgnoreCommandLines ==
    { NoArgs,
      [NoArgs EXCEPT !.add_ignore = << <<"b">> >>],
      [NoArgs EXCEPT !.add_ignore = << <<".", "g", "/">> >>],
      [NoArgs EXCEPT !.remove_ignore = << <<"b">> >>] }

\* an object with nothing but the key ignore_globs_extra
OnlyIgnore(v) == ConfigFile("object", NoKey, Absent, v, NoKey, NoKey, NoKey)

\* the ignore lists the user may write into the config by hand
HandIgnores ==
    { OnlyIgnore(List(<< <<"b">> >>)),
      OnlyIgnore(List(<< <<".", "g">> >>)) }

\* the runs of a history stay within the bound of the model
WithinRuns(r) == r.generated => DigitsToInt(SplitDots(r.version, 1, <<>>)[3]) <= MaxRuns

\* a run that may change the ignore list, with any tool for the tree
GenerateWithIgnores ==
    \E args \in IgnoreCommandLines, tool \in TreeTools :
        GenerateCodebook(args, tool, TRUE) /\ WithinRuns(run')

\* the user writes an ignore list into the config file
UserWriteIgnores ==
    /\ skill = "codebook"
    /\ edits < MaxEdits
    /\ \E f \in HandIgnores : f # config /\ config' = f
    /\ edits' = edits + 1
    /\ run' = Idle("edit", audit, ledger, files)
    /\ UNCHANGED <<skill, audit, ledger, files, artifact>>

NextIgnore ==
    \/ GenerateWithIgnores
    \/ UserWriteIgnores

SpecIgnore == InitCodebook /\ [][NextIgnore]_vars

\* ------------------------------------------------------------------------
\* The codebook generator and its config file: runs that override a setting
\* or only update the config, with git answering or not, and the user
\* leaving a config file of any kind
\* ------------------------------------------------------------------------

\* the command lines that touch the settings
ConfigCommandLines ==
    { NoArgs,
      [NoArgs EXCEPT !.max_text_file_bytes = Num(100)],
      [NoArgs EXCEPT !.skip_empty_files = Bool(FALSE)],
      [NoArgs EXCEPT !.add_ignore = << <<"f">> >>, !.config_only = TRUE] }

\* the files the user may leave as config
HandConfigs ==
    { NoConfig, CorruptConfig, ListConfig,
      OnlyIgnore(Null),
      ConfigFile("object", Str(<<"abc">>), Absent, NoKey, NoKey, NoKey, NoKey),
      ConfigFile("object", Num(2), Absent, List(<<>>), Bool(FALSE), Num(7), Str(<<"mine">>)) }

\* a run that may override a setting, with git answering or not
GenerateWithSettings ==
    \E args \in ConfigCommandLines, git_ok \in BOOLEAN :
        GenerateCodebook(args, "walk", git_ok) /\ WithinRuns(run')

\* the user writes the config file by hand, or deletes it
UserWriteConfig ==
    /\ skill = "codebook"
    /\ edits < MaxEdits
    /\ \E f \in HandConfigs : f # config /\ config' = f
    /\ edits' = edits + 1
    /\ run' = Idle("edit", audit, ledger, files)
    /\ UNCHANGED <<skill, audit, ledger, files, artifact>>

NextConfig ==
    \/ GenerateWithSettings
    \/ UserWriteConfig

SpecConfig == InitCodebook /\ [][NextConfig]_vars

\* ------------------------------------------------------------------------
\* Properties of the ledger generators
\* ------------------------------------------------------------------------

\* the blocks of a ledger file that carry an ID, as a re-parse finds them
IdBlocks(f) ==
    LET HasId(b) == Strip(pick(b, "ID")) # <<>>
    IN SelectSeq(SplitBlocks(f.lines), HasId)

BlockId(b) == Strip(pick(b, "ID"))
BlockFlag(b) == Strip(pick(b, FlagKey(skill)))
BlockNotes(b) == Strip(pick(b, "Notes"))
BlockIdSet(f) == LET blocks == IdBlocks(f) IN {BlockId(blocks[i]) : i \in 1..Len(blocks)}
BlocksOf(f, id) ==
    LET blocks == IdBlocks(f) IN {b \in {blocks[i] : i \in 1..Len(blocks)} : BlockId(b) = id}

\* the items of the audit JSON in document order
AuditItems ==
    IF skill = "dead"
    THEN audit.safe_removal_candidates \o audit.needs_manual_confirmation
         \o audit.dependency_findings
    ELSE audit.proposed_tests

\* an item's identifier: its id without the surrounding whitespace
MissingId(item) ==
    \/ item.id = Absent
    \/ \A i \in 1..Len(item.id) : item.id[i] = " "
Identifier(item) == IF item.id = Absent THEN <<>> ELSE Strip(item.id)
AuditIdSet == LET items == AuditItems IN {Identifier(items[i]) : i \in 1..Len(items)}

UpdatedOk == run.op = "update" /\ run.outcome = "ok"

\* C3: after a regeneration, every identifier that is both in the audit JSON
\* and in a block of the ledger the run started from has its regenerated
\* block(s) carrying the decision flag and the Notes of such an old block
C3_MergePreservation ==
    UpdatedOk =>
        \A id \in AuditIdSet \cap BlockIdSet(run.before) :
            /\ BlocksOf(ledger, id) # {}
            /\ \A nb \in BlocksOf(ledger, id) :
                  \E ob \in BlocksOf(run.before, id) :
                     /\ BlockFlag(nb) = BlockFlag(ob)
                     /\ BlockNotes(nb) = BlockNotes(ob)

\* a dead-code item whose old block had a decision typed in was moved to
\* another category, and the regenerated block still carries the decision
C3_Witness ==
    /\ UpdatedOk
    /\ skill = "dead"
    /\ \E nb \in BlocksOf(ledger, <<"A">>) : \E ob \in BlocksOf(run.before, <<"A">>) :
          /\ pick(nb, "Category") # pick(ob, "Category")
          /\ BlockFlag(ob) = <<"x">> /\ BlockFlag(nb) = <<"x">>
          /\ BlockNotes(nb) = BlockNotes(ob)

\* C4: a generator run on an audit JSON with an item that has no id, or an
\* empty one, raises and leaves the ledger file as it was (absent if absent)
C4_FatalOnMissingId ==
    (run.op = "update" /\ \E i \in 1..Len(AuditItems) : MissingId(AuditItems[i]))
        => (run.outcome = "fatal" /\ ledger = run.before)

\* a run raised on an item without id that follows a valid item, with a
\* ledger file already there
C4_Witness ==
    /\ run.op = "update" /\ run.outcome = "fatal"
    /\ run.before.exists /\ IdBlocks(run.before) # <<>>
    /\ Len(AuditItems) >= 2
    /\ ~MissingId(AuditItems[1])
    /\ MissingId(AuditItems[2])

\* C5: the ID-bearing blocks of a regenerated ledger are, in order, the
\* items of the audit JSON (safe removal, then manual confirmation, then
\* dependency findings; proposed tests), one block per item
C5_OneBlockPerItem ==
    UpdatedOk =>
        LET blocks == IdBlocks(ledger)
            items == AuditItems
        IN [i \in 1..Len(blocks) |-> BlockId(blocks[i])]
              = [i \in 1..Len(items) |-> Identifier(items[i])]

\* two items with different ids, the first in dependency findings or manual
\* confirmation and the other in safe removal, were regenerated
C5_Witness ==
    /\ UpdatedOk
    /\ skill = "dead"
    /\ Len(audit.safe_removal_candidates) = 1
    /\ Len(audit.dependency_findings) = 1
    /\ Identifier(audit.safe_removal_candidates[1])
          # Identifier(audit.dependency_findings[1])

\* C6: a run on an audit JSON whose items all have ids succeeds whatever
\* blocks the old ledger holds, and the regenerated ledger has no block for
\* an identifier that is not in the audit JSON
C6_StaleDropped ==
    run.op = "update" =>
        /\ (\A i \in 1..Len(AuditItems) : ~MissingId(AuditItems[i]))
              => run.outcome = "ok"
        /\ run.outcome = "ok" => BlockIdSet(ledger) \subseteq AuditIdSet

\* the old ledger had a block for an identifier the audit JSON does not have
C6_Witness ==
    /\ UpdatedOk
    /\ AuditItems # <<>>
    /\ BlockIdSet(run.before) \ AuditIdSet # {}

\* the regeneration of the current ledger from the current audit JSON
Regenerated ==
    IF skill = "dead" THEN UpdateDeadCodeProgressResult(audit, ledger)
    ELSE UpdateTestsProgressResult(audit, ledger)

\* C7: right after a successful regeneration, a second regeneration on the
\* same audit JSON leaves the ledger as the first one left it
C7_Idempotent ==
    UpdatedOk => (Regenerated.outcome = "ok" /\ Regenerated.ledger = ledger)

\* the first run started from a ledger the user had edited by hand (a flag
\* and a note typed in, with padding) and changed it
C7_Witness ==
    /\ UpdatedOk
    /\ run.before # ledger
    /\ \E b \in BlocksOf(run.before, <<"A">>) :
          /\ pick(b, FlagKey(skill)) = <<"x", " ">>
          /\ pick(b, "Notes") = <<"k", " ">>
    /\ \E b \in BlocksOf(ledger, <<"A">>) : BlockNotes(b) = <<"k">>

\* ------------------------------------------------------------------------
\* Properties of the apply operation
\* ------------------------------------------------------------------------

\* a location of the file system that lies in the tests/ tree of the
\* working directory
UnderTests(loc) == Len(loc) >= 2 /\ loc[1] = "tests"

ItemPath(t) == Strip(Get(t.file_path, <<>>))

\* the proposed tests the run started from, and those the user approved
ProposedBefore == run.auditBefore.proposed_tests
ApprovedItems ==
    {i \in 1..Len(ProposedBefore) : Identifier(ProposedBefore[i]) \in ApprovedIds(run.before)}
WrittenItems == {run.written[k].item : k \in 1..Len(run.written)}

Applied == run.op = "apply"
AppliedOk == run.op = "apply" /\ run.outcome = "ok"

\* C1: an apply run writes only to locations that, with "." and ".."
\* resolved, lie under tests/, and it fails when an approved item's path
\* does not lie under tests/
C1_WritesOnlyUnderTests ==
    Applied =>
        /\ \A k \in 1..Len(run.written) : UnderTests(run.written[k].loc)
        /\ (\E i \in ApprovedItems : ~UnderTests(Location(ItemPath(ProposedBefore[i]))))
              => run.outcome = "fatal"

\* C2: an apply run with an approved item whose path the guard refuses
\* fails and writes no file at all
C2_NoFileWrittenOnRefusal ==
    (Applied /\ \E i \in ApprovedItems : ~PathAllowed(ProposedBefore[i]))
        => /\ run.outcome = "fatal"
           /\ run.written = <<>>
           /\ files = run.filesBefore

\* the Create? flag, trimmed and lower-cased, of the blocks with this ID
FlagsOf(f, id) ==
    LET blocks == IdBlocks(f)
        Mine(b) == BlockId(b) = id
        mine == SelectSeq(blocks, Mine)
    IN [k \in 1..Len(mine) |-> Lower(Strip(pick(mine[k], "Create?")))]

\* C8 as stated: a successful apply run writes an item iff some block of
\* the ledger with the item's ID has the flag x, and the items it does not
\* write keep their status
C8_AppliedIffSomeBlockApproved ==
    AppliedOk =>
        \A i \in 1..Len(ProposedBefore) :
            LET flags == FlagsOf(run.before, Identifier(ProposedBefore[i]))
            IN /\ i \in WrittenItems <=> \E k \in 1..Len(flags) : flags[k] = <<"x">>
               /\ i \notin WrittenItems =>
                     audit.proposed_tests[i].status = ProposedBefore[i].status

\* C8 amended: a successful apply run writes an item iff the last block of
\* the ledger with the item's ID has the flag x (trimmed, case-insensitive);
\* the written file holds the item's content, and the items that are not
\* written keep their status
C8_AppliedIffLastBlockApproved ==
    AppliedOk =>
        \A i \in 1..Len(ProposedBefore) :
            LET t == ProposedBefore[i]
                flags == FlagsOf(run.before, Identifier(t))
            IN /\ i \in WrittenItems <=> (flags # <<>> /\ flags[Len(flags)] = <<"x">>)
               /\ i \in WrittenItems =>
                     /\ Location(ItemPath(t)) \in DOMAIN files
                     /\ files[Location(ItemPath(t))] = RStrip(t.content) \o <<"\n">>
               /\ i \notin WrittenItems =>
                     audit.proposed_tests[i].status = t.status

\* a successful run wrote the item the user approved with an upper-case X
\* and left alone an item that has no block in the ledger
C8_Witness ==
    /\ AppliedOk
    /\ Len(ProposedBefore) = 2
    /\ WrittenItems = {1}
    /\ FlagsOf(run.before, Identifier(ProposedBefore[2])) = <<>>
    /\ \E b \in BlocksOf(run.before, Identifier(ProposedBefore[1])) :
          pick(b, "Create?") = <<"X", " ">>

\* C9: after a successful apply run the audit JSON has status created on
\* every item the run applied, applied.created_ids lists exactly their ids
\* in audit order, and everything else is as it was
C9_AuditJsonUpdated ==
    AppliedOk =>
        /\ \A i \in WrittenItems : audit.proposed_tests[i].status = "created"
        /\ audit.applied.created_ids
              = [k \in 1..Len(run.written) |-> Identifier(ProposedBefore[run.written[k].item])]
        /\ \A k \in 1..Len(run.written) - 1 : run.written[k].item < run.written[k + 1].item
        /\ audit.summary = run.auditBefore.summary
        /\ DOMAIN audit = DOMAIN run.auditBefore
        /\ Len(audit.proposed_tests) = Len(ProposedBefore)
        /\ \A i \in 1..Len(ProposedBefore) :
              /\ i \notin WrittenItems => audit.proposed_tests[i] = ProposedBefore[i]
              /\ [audit.proposed_tests[i] EXCEPT !.status = ProposedBefore[i].status]
                    = ProposedBefore[i]

\* a second successful run applied an item again, replaced the ids recorded
\* by the run before it and left a proposed item alone
C9_Witness ==
    /\ AppliedOk
    /\ run.auditBefore.applied # NoKey
    /\ WrittenItems # {}
    /\ \E i \in 1..Len(ProposedBefore) :
          i \notin WrittenItems /\ audit.proposed_tests[i].status = "proposed"

\* ------------------------------------------------------------------------
\* Properties of the version stamper
\* ------------------------------------------------------------------------

Generated == run.op = "generate" /\ run.outcome = "ok" /\ run.generated

\* MAJOR, MINOR and PATCH of a version text, as numbers
VersionNumbers(v) ==
    LET parts == SplitDots(Strip(v), 1, <<>>)
    IN [k \in 1..3 |-> DigitsToInt(parts[k])]

\* the text after the first "- codebook_version:" line of a file that holds
\* a MAJOR.MINOR.PATCH version
MarkerOf(f) ==
    LET Marks(l) == l.key = MarkerKey /\ IsSemver(Strip(l.val))
        marks == SelectSeq(f.lines, Marks)
    IN IF marks = <<>> THEN <<>> ELSE marks[1].val

\* C10: a generation that finds the marker A.B.C in the existing artifact
\* stamps A.B.(C+1): the new artifact carries it and the config records it
C10_PatchBump ==
    (Generated /\ MarkerOf(run.artifactBefore) # <<>>) =>
        LET old == VersionNumbers(MarkerOf(run.artifactBefore))
            new == VersionNumbers(run.version)
        IN /\ IsSemver(run.version)
           /\ new[1] = old[1] /\ new[2] = old[2] /\ new[3] = old[3] + 1
           /\ run.version = FormatSemver(old[1], old[2], old[3] + 1)
           /\ Strip(MarkerOf(artifact)) = run.version
           /\ config.codebook_version = run.version

\* the artifact held 02.03.9 and the generation stamped 2.3.10
C10_Witness ==
    /\ Generated
    /\ Strip(MarkerOf(run.artifactBefore)) = <<"0", "2", ".", "0", "3", ".", "9">>
    /\ run.version = <<"2", ".", "3", ".", "1", "0">>

\* the version one PATCH after a version text
PatchAfter(v) ==
    LET n == VersionNumbers(v) IN FormatSemver(n[1], n[2], n[3] + 1)

\* C11: the previous version is the marker of the existing artifact if there
\* is one, whatever the config records; without a marker it is the version
\* recorded in the config, bumped by one PATCH; without either the artifact
\* is stamped 1.0.0
C11_VersionPrecedence ==
    Generated =>
        LET marker == MarkerOf(run.artifactBefore)
            recorded == run.configBefore.codebook_version
        IN /\ marker # <<>> => run.version = PatchAfter(marker)
           /\ (marker = <<>> /\ recorded # Absent /\ IsSemver(Strip(recorded)))
                 => run.version = PatchAfter(recorded)
           /\ (marker = <<>> /\ (recorded = Absent \/ recorded = <<>>))
                 => run.version = <<"1", ".", "0", ".", "0">>

\* an artifact whose marker was removed, a config that records 0.4.7, and
\* the generation stamped 0.4.8
C11_Witness ==
    /\ Generated
    /\ run.artifactBefore.exists
    /\ MarkerOf(run.artifactBefore) = <<>>
    /\ run.configBefore.codebook_version = <<"0", ".", "4", ".", "7">>
    /\ run.version = <<"0", ".", "4", ".", "8">>

\* the artifact carried 2.3.1 while the config recorded 0.4.7
C11_WitnessMarkerWins ==
    /\ Generated
    /\ Strip(MarkerOf(run.artifactBefore)) = <<"2", ".", "3", ".", "1">>
    /\ run.configBefore.codebook_version = <<"0", ".", "4", ".", "7">>
    /\ run.version = <<"2", ".", "3", ".", "2">>

\* ------------------------------------------------------------------------
\* Properties of the exclusions and of the config store
\* ------------------------------------------------------------------------

\* the persisted extra-ignore list after the run
PersistedIgnores == IF config.kind = "object" /\ DOMAIN config.ignore_globs_extra = {"list"}
                    THEN config.ignore_globs_extra.list ELSE <<>>

\* the entries of the working tree that are the directory or lie under it
Under(tree, base) ==
    { e.path : e \in { x \in tree : x.path = base \/ StartsWith(x.path, base \o <<"/">>) } }

\* an ignore entry that names a directory: no glob character, and a
\* directory of the tree or a trailing slash
NamesDirectory(tree, entry) ==
    /\ ~HasGlobMeta(entry)
    /\ RStripSlash(NormalizeGlob(entry)) # <<>>
    /\ IsDir(tree, NormalizeGlob(entry)) \/ EndsWith(NormalizeGlob(entry), <<"/">>)

\* C12: after a generation, for every persisted ignore entry that names a
\* directory D, neither D nor any path under D is in the tree rendering or
\* in the file list
C12_DirectoryExcluded ==
    Generated =>
        LET tree == WorkingTree(run.artifactBefore)
        IN \A k \in 1..Len(PersistedIgnores) :
              NamesDirectory(tree, PersistedIgnores[k]) =>
                 \A p \in Under(tree, RStripSlash(NormalizeGlob(PersistedIgnores[k]))) :
                    /\ p \notin run.paths
                    /\ \A l \in run.tree : l.of # p

\* the components the generator never documents
ExcludedComponents ==
    { <<".", "git">>, <<"__pycache__">>, <<".", "venv">>, <<".", "mypy_cache">>,
      <<".", "ruff_cache">>, <<".", "pytest_cache">>, <<"htmlcov">>, <<"tests">> }

\* C13: whatever the persisted ignore list, the file list of a generation
\* holds neither the artifact, nor its config file, nor a path under
\* docs/artifacts, nor a path with a built-in excluded component
C13_BuiltinsAlwaysExcluded ==
    Generated =>
        \A p \in run.paths :
            /\ p # <<"docs", "/", "artifacts", "/", "repo_codebook", ".", "md">>
            /\ p # <<"docs", "/", "artifacts", "/", "repo_codebook", ".", "config", ".", "json">>
            /\ ~StartsWith(p, <<"docs", "/", "artifacts", "/">>)
            /\ \A k \in 1..Len(Components(p)) : Components(p)[k] \notin ExcludedComponents

\* a generation after an add and a remove of an ignore entry, in a tree that
\* holds an earlier artifact, lists the files that are not excluded
C13_Witness ==
    /\ Generated
    /\ run.artifactBefore.exists
    /\ run.args.remove_ignore # <<>>
    /\ <<"b", "/", "s", "/", "x">> \in run.paths
    /\ <<"f">> \in run.paths

\* a config file that holds a JSON object whose values have the types of the
\* data model
WellFormed(file) ==
    /\ file.kind = "object"
    /\ file.version = NoKey \/ DOMAIN file.version = {"num"}
    /\ file.ignore_globs_extra = NoKey \/ DOMAIN file.ignore_globs_extra = {"list"}
    /\ file.max_text_file_bytes = NoKey \/ DOMAIN file.max_text_file_bytes = {"num"}

\* C14: a run that finds the config missing, not parseable, or not a
\* well-formed config object does not fail at the load: it goes on with the
\* default config
C14_LoadNeverFatal ==
    (run.op = "generate" /\ ~WellFormed(run.configBefore)) =>
        /\ run.failed # "load"
        /\ run.loaded = [version |-> 1, ignore_globs_extra |-> <<>>,
                         skip_empty_files |-> TRUE, max_text_file_bytes |-> 524288,
                         notes |-> run.loaded.notes, codebook_version |-> Absent]

\* what holds of the load: a config that is missing or is not JSON is
\* replaced by the default and the run goes on
C14_MissingOrCorruptRecovered ==
    (run.op = "generate" /\ run.configBefore.kind \in {"missing", "corrupt"}) =>
        /\ run.failed # "load"
        /\ run.loaded.version = 1 /\ run.loaded.ignore_globs_extra = <<>>
        /\ run.loaded.skip_empty_files /\ run.loaded.max_text_file_bytes = 524288
        /\ run.loaded.codebook_version = Absent

\* a setting as a later load reads it from the persisted file
SettingOf(v, default) ==
    IF v = NoKey THEN default
    ELSE IF DOMAIN v = {"num"} THEN v.num
    ELSE IF DOMAIN v = {"bool"} THEN v.bool
    ELSE v

\* the run got past the load of the config
Loaded == run.op = "generate" /\ run.failed # "load"

\* C15: across any run the persisted schema version, skip-empty-files flag,
\* max text file size and notes are the ones the run loaded
C15_SettingsKept ==
    Loaded =>
        /\ SettingOf(config.version, 1) = run.loaded.version
        /\ SettingOf(config.skip_empty_files, TRUE) = run.loaded.skip_empty_files
        /\ SettingOf(config.max_text_file_bytes, 524288) = run.loaded.max_text_file_bytes
        /\ SettingOf(config.notes, Null) = run.loaded.notes

\* what holds of the settings: the schema version and the notes are kept by
\* every run, the flag and the size by every run that does not override them
C15_KeptUnlessOverridden ==
    Loaded =>
        /\ SettingOf(config.version, 1) = run.loaded.version
        /\ SettingOf(config.notes, Null) = run.loaded.notes
        /\ run.args.skip_empty_files = NoKey =>
              SettingOf(config.skip_empty_files, TRUE) = run.loaded.skip_empty_files
        /\ run.args.max_text_file_bytes = NoKey =>
              SettingOf(config.max_text_file_bytes, 524288) = run.loaded.max_text_file_bytes

\* C16: when the listing command of the version control fails, the generator
\* still lists the files that are not excluded and completes the artifact
C16_ListingFallback ==
    (run.op = "generate" /\ ~run.git_ok) =>
        /\ run.outcome = "ok"
        /\ run.generated
        /\ artifact.exists
        /\ <<"f">> \in run.paths

\* ------------------------------------------------------------------------
\* The scaffolders: scaffold_fastapi_uv.py and scaffold_ralph_codex.py
\* A destination tree maps each path to an entry; the content of a file is
\* a sequence of tokens and its permission bits are three octal digits.
\* ------------------------------------------------------------------------

NoDest == [exists |-> FALSE, lines |-> <<>>, mode |-> <<>>]
Entry(lines, mode) == [exists |-> TRUE, lines |-> lines, mode |-> mode]

\* the permission bits of a file and of a directory the run creates
\* (0666 and 0777 under the usual umask of 022)
NewFileMode == <<6, 4, 4>>
NewDirMode == <<7, 5, 5>>
Directory == [exists |-> TRUE, lines |-> <<"<dir>">>, mode |-> NewDirMode]

\* path.write_text: the content is replaced, an existing file keeps its bits
WriteTextTo(tree, path, content) ==
    [tree EXCEPT ![path] =
        Entry(content, IF @.exists THEN @.mode ELSE NewFileMode)]

\* mkdir(parents=True, exist_ok=True) on a directory the model tracks
MkDir(tree, path) ==
    IF tree[path].exists THEN tree ELSE [tree EXCEPT ![path] = Directory]

\* _write_text without the test of existence
WriteText_Always(tree, path, content, force) ==
    [tree |-> WriteTextTo(tree, path, content), written |-> TRUE]

\* _write_text of scaffold_ralph_codex.py
WriteText(tree, path, content, force) ==
    IF tree[path].exists /\ ~force
    THEN [tree |-> tree, written |-> FALSE]
    ELSE [tree |-> WriteTextTo(tree, path, content), written |-> TRUE]

\* st_mode | S_IXUSR | S_IXGRP | S_IXOTH
MakeExecutable(tree, path) ==
    [tree EXCEPT ![path].mode =
        [i \in 1..3 |-> IF @[i] % 2 = 1 THEN @[i] ELSE @[i] + 1]]

\* the templates of main, in the order of the dict
RalphTemplates ==
    << [tmpl |-> "ralph.sh.tmpl", dest |-> "ralph.sh"],
       [tmpl |-> "prompt.md.tmpl", dest |-> "prompt.md"],
       [tmpl |-> "CODEX.md.tmpl", dest |-> "CODEX.md"],
       [tmpl |-> "AGENTS.md.tmpl", dest |-> "AGENTS.md"],
       [tmpl |-> "progress.txt.tmpl", dest |-> "progress.txt"],
       [tmpl |-> "prd.json.example.tmpl", dest |-> "prd.json.example"],
       [tmpl |-> "ralph.rules.tmpl", dest |-> ".codex/rules/ralph.rules"] >>

RalphPaths == { RalphTemplates[i].dest : i \in 1..Len(RalphTemplates) } \cup {"archive"}

\* the text of a template of the ralph skill: the progress template holds
\* the token that main replaces by the time of the run
RalphTemplate(tmpl) ==
    IF tmpl = "progress.txt.tmpl"
    THEN <<tmpl, "Started:", "{{STARTED_AT}}">>
    ELSE <<tmpl>>

\* the loop of main over the templates, from template i on
RECURSIVE RalphLoop(_, _, _, _, _)
RalphLoop(i, acc, force, dry_run, started_at) ==
    IF i > Len(RalphTemplates) THEN acc
    ELSE
        LET t == RalphTemplates[i]
            text == RalphTemplate(t.tmpl)
            content == IF t.tmpl = "progress.txt.tmpl"
                       THEN ReplaceToken(text, "{{STARTED_AT}}", <<started_at>>)
                       ELSE text
            w == WriteText(acc.tree, t.dest, content, force)
            tree2 == IF t.dest = "ralph.sh" /\ w.written
                     THEN MakeExecutable(w.tree, t.dest)
                     ELSE w.tree
        IN  IF dry_run
            THEN RalphLoop(i + 1, acc, force, dry_run, started_at)
            ELSE RalphLoop(i + 1,
                     [tree |-> tree2,
                      written |-> IF w.written THEN acc.written \cup {t.dest} ELSE acc.written,
                      skipped |-> IF w.written THEN acc.skipped ELSE acc.skipped \cup {t.dest}],
                     force, dry_run, started_at)

\* main of scaffold_ralph_codex.py on a destination tree
ScaffoldRalph(tree, force, dry_run, started_at) ==
    RalphLoop(1,
        [tree |-> IF dry_run THEN tree ELSE MkDir(tree, "archive"),
         written |-> {}, skipped |-> {}],
        force, dry_run, started_at)

\* _apply_replacements: the keys are replaced one after the other
RECURSIVE ApplyReplacements(_, _)
ApplyReplacements(content, repl) ==
    IF repl = <<>> THEN content
    ELSE ApplyReplacements(ReplaceToken(content, Head(repl).k, <<Head(repl).v>>), Tail(repl))

\* the text of a template of the FastAPI scaffolder, with the placeholder
\* tokens of the scaffolder
FastapiTemplate(tmpl) ==
    <<tmpl, "__SERVICE_NAME__", "__APP_TITLE__", "__PYTHON_VERSION__">>

\* _write_file of scaffold_fastapi_uv.py
ScaffoldWriteFile(tree, path, content, overwrite) ==
    IF tree[path].exists /\ ~overwrite THEN tree
    ELSE WriteTextTo(tree, path, content)

\* _touch_init
TouchInit(tree, dir_path) ==
    LET init_file == IF dir_path = "" THEN "__init__.py" ELSE dir_path \o "/__init__.py"
    IN  IF tree[init_file].exists THEN tree
        ELSE [tree EXCEPT ![init_file] = Entry(<<>>, NewFileMode)]

\* the calls of scaffold, in their order
FastapiSteps ==
    << [tmpl |-> "pyproject.toml.tmpl", dest |-> "pyproject.toml"],
       [tmpl |-> "python-version.tmpl", dest |-> ".python-version"],
       [tmpl |-> "Dockerfile.tmpl", dest |-> "Dockerfile"],
       [tmpl |-> "README.md.tmpl", dest |-> "README.md"],
       [tmpl |-> "env.example.tmpl", dest |-> ".env.example"],
       [tmpl |-> "", dest |-> "src"],
       [tmpl |-> "", dest |-> "src/core"],
       [tmpl |-> "", dest |-> "src/api"],
       [tmpl |-> "", dest |-> "src/api/v1"],
       [tmpl |-> "", dest |-> "src/api/v1/endpoints"],
       [tmpl |-> "", dest |-> "src/api/v2"],
       [tmpl |-> "", dest |-> "src/schemas"],
       [tmpl |-> "", dest |-> "src/services"],
       [tmpl |-> "", dest |-> "src/services/clients"],
       [tmpl |-> "", dest |-> "src/utils"],
       [tmpl |-> "src_main.py.tmpl", dest |-> "src/main.py"],
       [tmpl |-> "src_core_config.py.tmpl", dest |-> "src/core/config.py"],
       [tmpl |-> "src_core_log_config.py.tmpl", dest |-> "src/core/log_config.py"],
       [tmpl |-> "src_core_logger_func.py.tmpl", dest |-> "src/core/logger_func.py"],
       [tmpl |-> "src_core_errors.py.tmpl", dest |-> "src/core/errors.py"],
       [tmpl |-> "src_api_deps.py.tmpl", dest |-> "src/api/deps.py"],
       [tmpl |-> "src_api_v1_router.py.tmpl", dest |-> "src/api/v1/router.py"],
       [tmpl |-> "src_api_v1_health.py.tmpl", dest |-> "src/api/v1/endpoints/health.py"],
       [tmpl |-> "src_services_clients_httpx.py.tmpl", dest |-> "src/services/clients/httpx_client.py"],
       [tmpl |-> "", dest |-> "tests"],
       [tmpl |-> "tests_test_health.py.tmpl", dest |-> "tests/test_health.py"] >>

FastapiPaths ==
    { IF FastapiSteps[i].tmpl = "" THEN FastapiSteps[i].dest \o "/__init__.py"
      ELSE FastapiSteps[i].dest : i \in 1..Len(FastapiSteps) }

RECURSIVE FastapiLoop(_, _, _, _)
FastapiLoop(i, tree, repl, overwrite) ==
    IF i > Len(FastapiSteps) THEN tree
    ELSE
        LET t == FastapiSteps[i]
        IN  FastapiLoop(i + 1,
                IF t.tmpl = "" THEN TouchInit(tree, t.dest)
                ELSE ScaffoldWriteFile(tree, t.dest,
                         ApplyReplacements(FastapiTemplate(t.tmpl), repl), overwrite),
                repl, overwrite)

\* scaffold of scaffold_fastapi_uv.py on a destination tree
Scaffold(tree, service_name, app_title, python_version, overwrite) ==
    FastapiLoop(1, tree,
        << [k |-> "__SERVICE_NAME__", v |-> service_name],
           [k |-> "__APP_TITLE__", v |-> app_title],
           [k |-> "__PYTHON_VERSION__", v |-> python_version] >>,
        overwrite)

\* ------------------------------------------------------------------------
\* The scaffolders on a destination directory: runs of one scaffolder with
\* any command line, at any time, and the user writing or deleting
\* destination files between the runs
\* ------------------------------------------------------------------------

\* the values of datetime.now() a run may see
Clock == { "2026-01-01T10:00:00", "2026-01-01T10:00:01" }

\* the command lines of the two scaffolders
RalphCommandLines == [force : BOOLEAN, dry_run : BOOLEAN]
FastapiCommandLines ==
    [service_name : {"orders", "__APP_TITLE__"}, app_title : {"Orders API"},
     python_version : {"3.14.2"}, overwrite : BOOLEAN]

DestPaths(s) == IF s = "ralph" THEN RalphPaths ELSE FastapiPaths

\* the destination files the user writes or deletes, and the bits they give
HandPaths(s) ==
    IF s = "ralph" THEN {"ralph.sh", "progress.txt"}
    ELSE {"README.md", "src/__init__.py"}
HandModes == { <<6, 0, 0>>, <<7, 5, 5>> }
HandText == <<"mine">>

ScaffoldRun(op, args, before, written, skipped, repeat, started_at) ==
    [op |-> op, args |-> args, filesBefore |-> before, written |-> written,
     skipped |-> skipped, repeat |-> repeat, started_at |-> started_at]

InitScaffold ==
    /\ skill \in {"ralph", "fastapi"}
    /\ audit = EmptyAudit("tests")
    /\ ledger = NoFile
    /\ files = [p \in DestPaths(skill) |-> NoDest]
    /\ run = ScaffoldRun("none", <<>>, files, {}, {}, FALSE, "")
    /\ artifact = NoFile
    /\ config = NoConfig
    /\ edits = 0

\* a run repeats the one before it when no edit came between the two and
\* the command line is the same
Repeats(args) == run.op = "scaffold" /\ run.args = args

RunScaffoldRalph ==
    /\ skill = "ralph"
    /\ \E args \in RalphCommandLines, started_at \in Clock :
        \E r \in { ScaffoldRalph(files, args.force, args.dry_run, started_at) } :
            /\ files' = r.tree
            /\ run' = ScaffoldRun("scaffold", args, files, r.written, r.skipped,
                                  Repeats(args), started_at)
    /\ UNCHANGED <<skill, audit, ledger, artifact, config, edits>>

RunScaffoldFastapi ==
    /\ skill = "fastapi"
    /\ \E args \in FastapiCommandLines :
        \E t \in { Scaffold(files, args.service_name, args.app_title,
                            args.python_version, args.overwrite) } :
            /\ files' = t
            /\ run' = ScaffoldRun("scaffold", args, files,
                                  { p \in DOMAIN files : t[p] # files[p] }, {},
                                  Repeats(args), "")
    /\ UNCHANGED <<skill, audit, ledger, artifact, config, edits>>

UserWriteDest ==
    /\ skill \in {"ralph", "fastapi"}
    /\ edits < MaxEdits
    /\ \E p \in HandPaths(skill), m \in HandModes :
        /\ files[p] # Entry(HandText, m)
        /\ files' = [files EXCEPT ![p] = Entry(HandText, m)]
    /\ run' = ScaffoldRun("edit", <<>>, files, {}, {}, FALSE, "")
    /\ edits' = edits + 1
    /\ UNCHANGED <<skill, audit, ledger, artifact, config>>

UserDeleteDest ==
    /\ skill \in {"ralph", "fastapi"}
    /\ edits < MaxEdits
    /\ \E p \in HandPaths(skill) :
        /\ files[p].exists
        /\ files' = [files EXCEPT ![p] = NoDest]
    /\ run' = ScaffoldRun("edit", <<>>, files, {}, {}, FALSE, "")
    /\ edits' = edits + 1
    /\ UNCHANGED <<skill, audit, ledger, artifact, config>>

NextScaffold ==
    \/ RunScaffoldRalph
    \/ RunScaffoldFastapi
    \/ UserWriteDest
    \/ UserDeleteDest

SpecScaffold == InitScaffold /\ [][NextScaffold]_vars

\* a run of a scaffolder that may not overwrite
ScaffoldedKeeping ==
    /\ run.op = "scaffold"
    /\ IF skill = "ralph" THEN ~run.args.force ELSE ~run.args.overwrite

\* a run of a scaffolder that may overwrite
ScaffoldedOverwriting ==
    /\ run.op = "scaffold"
    /\ IF skill = "ralph" THEN run.args.force ELSE run.args.overwrite

\* C17: without --overwrite / --force a run changes neither the content nor
\* the permission bits of a destination file that existed before it, and a
\* second run after a first one writes nothing and leaves the same files
C17_KeepsExisting ==
    ScaffoldedKeeping =>
        /\ \A p \in DOMAIN files :
              run.filesBefore[p].exists => files[p] = run.filesBefore[p]
        /\ run.repeat => (files = run.filesBefore /\ run.written = {})

\* a second run of the ralph scaffolder without --force, after a first one
\* that wrote the other files around a ralph.sh of the user
C17_Witness ==
    /\ skill = "ralph"
    /\ ScaffoldedKeeping
    /\ run.repeat
    /\ ~run.args.dry_run
    /\ files["ralph.sh"] = Entry(HandText, <<6, 0, 0>>)
    /\ files["prompt.md"].exists
    /\ run.skipped = RalphPaths \ {"archive"}

\* the same for the FastAPI scaffolder, around a README.md of the user
C17_WitnessFastapi ==
    /\ skill = "fastapi"
    /\ ScaffoldedKeeping
    /\ run.repeat
    /\ files["README.md"] = Entry(HandText, <<6, 0, 0>>)
    /\ files["src/main.py"].exists

\* C18: with --overwrite / --force, a run that repeats the one before it
\* (same templates, same command line) leaves the destination files as the
\* first run left them, whenever the two runs take place
C18_OverwriteDeterministic ==
    (ScaffoldedOverwriting /\ run.repeat) => files = run.filesBefore

\* what holds of the two scaffolders: the FastAPI scaffolder is
\* deterministic, the ralph scaffolder is for two runs that see the same time
C18_DeterministicAtSameTime ==
    (ScaffoldedOverwriting /\ run.repeat) =>
        \/ files = run.filesBefore
        \/ /\ skill = "ralph"
           /\ ~run.args.dry_run
           /\ \A p \in DOMAIN files :
                p # "progress.txt" => files[p] = run.filesBefore[p]

\* ------------------------------------------------------------------------
\* The best-practices auditor: audit_python_project.py
\* The text of pyproject.toml is a sequence of tokens; a line ends with NL.
\* ------------------------------------------------------------------------

NL == "\n"
DQ == "\""

\* \s of the regular expression
IsWs(c) == c = " " \/ c = NL

\* the position after the whitespace that starts at position i
RECURSIVE SkipWs(_, _)
SkipWs(text, i) ==
    IF i <= Len(text) /\ IsWs(text[i]) THEN SkipWs(text, i + 1) ELSE i

At(text, i, token) == i <= Len(text) /\ text[i] = token

\* _TASK_LINT_FIX_RE matched at position i: \s*lint_fix\s*=\s*".+"
LintFixAt(text, i) ==
    LET a == SkipWs(text, i)
        b == SkipWs(text, a + 1)
        c == SkipWs(text, b + 1)
    IN  /\ At(text, a, "lint_fix")
        /\ At(text, b, "=")
        /\ At(text, c, DQ)
        /\ \E j \in (c + 2)..Len(text) :
              /\ text[j] = DQ
              /\ \A k \in (c + 1)..(j - 1) : text[k] # NL

\* _TASK_LINT_FIX_RE.search(content), with re.MULTILINE: ^ is the start of
\* the text or the position after a newline
TASK_LINT_FIX_RE(text) ==
    \E i \in 1..Len(text) :
        /\ (i = 1 \/ text[i - 1] = NL)
        /\ LintFixAt(text, i)

\* "[tool.taskipy.tasks]" in content
HasTaskipyTasks(text) == \E i \in 1..Len(text) : text[i] = "[tool.taskipy.tasks]"

\* main with the search for the task before the test of the section
AuditPythonProject_TaskFirst(pyproject) ==
    IF ~pyproject.exists THEN 2
    ELSE IF ~TASK_LINT_FIX_RE(pyproject.lines) THEN 4
    ELSE IF ~HasTaskipyTasks(pyproject.lines) THEN 3
    ELSE 0

\* main of audit_python_project.py: the exit code
AuditPythonProject(pyproject) ==
    IF ~pyproject.exists THEN 2
    ELSE IF ~HasTaskipyTasks(pyproject.lines) THEN 3
    ELSE IF ~TASK_LINT_FIX_RE(pyproject.lines) THEN 4
    ELSE 0

\* ------------------------------------------------------------------------
\* The best-practices auditor on a pyproject.toml the user writes line by
\* line, or deletes
\* ------------------------------------------------------------------------

MaxLines == 2

\* the lines the user may append to pyproject.toml
PyprojectLines ==
    { <<"[tool.taskipy.tasks]", NL>>,
      <<"[project]", NL>>,
      <<"lint_fix", " ", "=", " ", DQ, "ruff", DQ, NL>>,
      <<" ", "lint_fix", "=", DQ, DQ, NL>>,
      <<"lint_fix", "=", "'", "ruff", "'", NL>>,
      <<"#", "lint_fix", "=", DQ, "ruff", DQ, NL>>,
      <<"lint_fix", " ", "=", NL>>,
      <<" ", DQ, "ruff", DQ, NL>> }

CountLines(text) == Cardinality({ i \in 1..Len(text) : text[i] = NL })

InitPython ==
    /\ skill = "python"
    /\ audit = EmptyAudit("tests")
    /\ ledger = NoFile
    /\ files = NoFile
    /\ run = [op |-> "none", exit |-> 0, pyproject |-> NoFile]
    /\ artifact = NoFile
    /\ config = NoConfig
    /\ edits = 0

RunAuditPython ==
    /\ skill = "python"
    /\ run' = [op |-> "audit", exit |-> AuditPythonProject(files), pyproject |-> files]
    /\ UNCHANGED <<skill, audit, ledger, files, artifact, config, edits>>

UserAppendPyproject ==
    /\ skill = "python"
    /\ CountLines(files.lines) < MaxLines
    /\ \E l \in PyprojectLines : files' = File(files.lines \o l)
    /\ run' = [op |-> "edit", exit |-> 0, pyproject |-> files]
    /\ UNCHANGED <<skill, audit, ledger, artifact, config, edits>>

UserCreatePyproject ==
    /\ skill = "python"
    /\ ~files.exists
    /\ files' = File(<<>>)
    /\ run' = [op |-> "edit", exit |-> 0, pyproject |-> files]
    /\ UNCHANGED <<skill, audit, ledger, artifact, config, edits>>

UserDeletePyproject ==
    /\ skill = "python"
    /\ files.exists
    /\ files' = NoFile
    /\ run' = [op |-> "edit", exit |-> 0, pyproject |-> files]
    /\ UNCHANGED <<skill, audit, ledger, artifact, config, edits>>

NextPython ==
    \/ RunAuditPython
    \/ UserAppendPyproject
    \/ UserCreatePyproject
    \/ UserDeletePyproject

SpecPython == InitPython /\ [][NextPython]_vars

\* the text without the spaces and newlines it starts with
RECURSIVE LStripWs(_)
LStripWs(text) ==
    IF text # <<>> /\ IsWs(Head(text)) THEN LStripWs(Tail(text)) ELSE text

\* the three prerequisites, as lines of the file the run read: the header of
\* the section, and a line that starts with lint_fix, then =, then a value
\* between double quotes that is not empty (the spaces between them may
\* hold a newline, as for the regular expression)
SectionLine(text) == \E i \in 1..Len(text) : text[i] = "[tool.taskipy.tasks]"
TaskLine(text) ==
    \E i \in 1..Len(text) :
        /\ (i = 1 \/ text[i - 1] = NL)
        /\ LET rest == LStripWs(SubSeq(text, i, Len(text)))
               after == IF rest = <<>> THEN <<>> ELSE LStripWs(Tail(rest))
               value == IF after = <<>> THEN <<>> ELSE LStripWs(Tail(after))
           IN  /\ rest # <<>> /\ Head(rest) = "lint_fix"
               /\ after # <<>> /\ Head(after) = "="
               /\ Len(value) >= 3 /\ Head(value) = DQ /\ value[2] # NL
               /\ \E j \in 3..Len(value) :
                     value[j] = DQ /\ \A k \in 2..j : value[k] # NL

\* C19: the exit code is 2 iff pyproject.toml is absent, 3 iff it exists
\* without the section, 4 iff the section is there and no lint_fix
\* assignment is found, and 0 exactly when the three are present
C19_ExitCodes ==
    run.op = "audit" =>
        LET f == run.pyproject
        IN  /\ run.exit \in {0, 2, 3, 4}
            /\ run.exit = 2 <=> ~f.exists
            /\ run.exit = 3 <=> (f.exists /\ ~SectionLine(f.lines))
            /\ run.exit = 4 <=> (f.exists /\ SectionLine(f.lines) /\ ~TaskLine(f.lines))
            /\ run.exit = 0 <=> (f.exists /\ SectionLine(f.lines) /\ TaskLine(f.lines))

\* a file with the task and without the section: the section is tested first
C19_Witness ==
    /\ run.op = "audit"
    /\ run.pyproject.exists
    /\ TaskLine(run.pyproject.lines)
    /\ ~SectionLine(run.pyproject.lines)
    /\ run.exit = 3

C19_WitnessOk == run.op = "audit" /\ run.exit = 0
C19_WitnessNoTask ==
    run.op = "audit" /\ run.exit = 4 /\ Len(run.pyproject.lines) > 2
C19_WitnessAbsent == run.op = "audit" /\ run.exit = 2

\* ------------------------------------------------------------------------
\* The structural auditors: src/scripts/audit_fastapi_project.py and
\* skills/fastapi-architect/scripts/audit_fastapi_project.py
\* A project tree maps each inspected path to an entry: absent, a directory,
\* a text file (a sequence of tokens) or a file that cannot be read.
\* ------------------------------------------------------------------------

ProjectEntry(kind, text) == [kind |-> kind, text |-> text]
NoPath == ProjectEntry("absent", <<>>)
DirPath == ProjectEntry("dir", <<>>)
TextPath(text) == ProjectEntry("file", text)
Unreadable == ProjectEntry("unreadable", <<>>)

\* the paths the auditors inspect, the project directory being the empty path
ProjectPaths ==
    { "", "pyproject.toml", "src", "src/main.py", "src/core", "src/core/config.py",
      "src/api", "src/services", "src/services/clients", "src/services/clients/c.py",
      "src/utils", "tests" }

ParentPath(p) ==
    CASE p \in {"pyproject.toml", "src", "tests"} -> ""
      [] p \in {"src/main.py", "src/core", "src/api", "src/services", "src/utils"} -> "src"
      [] p = "src/core/config.py" -> "src/core"
      [] p = "src/services/clients" -> "src/services"
      [] p = "src/services/clients/c.py" -> "src/services/clients"
      [] OTHER -> ""

\* what the file system answers for a path: the kind of its entry when every
\* directory above it is a directory, absent when one of them is absent,
\* notdir when one of them is not a directory
RECURSIVE PathStatus(_, _)
PathStatus(tree, p) ==
    IF p = "" THEN tree[p].kind
    ELSE LET above == PathStatus(tree, ParentPath(p))
         IN  IF above = "dir" THEN tree[p].kind
             ELSE IF above = "absent" THEN "absent"
             ELSE "notdir"

\* _exists: Path.exists() answers False for ENOENT and ENOTDIR
PathExists(tree, p) == PathStatus(tree, p) \notin {"absent", "notdir"}

\* _read_text: only FileNotFoundError is caught
ReadText_CatchAll(tree, p) ==
    IF PathStatus(tree, p) = "file"
    THEN [ok |-> TRUE, text |-> tree[p].text]
    ELSE [ok |-> TRUE, text |-> <<>>]

ReadText(tree, p) ==
    LET st == PathStatus(tree, p)
    IN  IF st = "absent" THEN [ok |-> TRUE, text |-> <<>>]
        ELSE IF st = "file" THEN [ok |-> TRUE, text |-> tree[p].text]
        ELSE [ok |-> FALSE, text |-> <<>>]

Holds(text, token) == \E i \in 1..Len(text) : text[i] = token

\* the inspected paths whose name ends with .py
PyNames == { "src/main.py", "src/core/config.py", "src/services/clients/c.py" }

\* the *.py entries of a directory (of any kind); nothing for a path that is
\* not a directory
PyFilesIn(tree, dir) ==
    IF PathStatus(tree, dir) # "dir" THEN {}
    ELSE { p \in ProjectPaths \ {""} :
             ParentPath(p) = dir /\ tree[p].kind # "absent" /\ p \in PyNames }

REQUIRED_PATHS ==
    << "pyproject.toml", "src/main.py", "src/core/config.py",
       "src/services/clients", "src/utils", "tests" >>

BASE_REQUIRED_PATHS ==
    << "pyproject.toml", "src/main.py", "src/core/config.py", "src/utils", "tests" >>

\* the required paths that do not exist, in the order of the list
MissingPaths(tree, required) ==
    SelectSeq(required, LAMBDA p : ~PathExists(tree, p))

\* the lines of a report
Txt(text) == [text |-> text]
Flag(text, value) == [text |-> text, value |-> value]
MissingLine(p) == [missing |-> p]
FindingLine(finding, p) == [finding |-> finding, path |-> p]
PlanLine(i, step, p) == [n |-> i, step |-> step, path |-> p]

Fatal == [outcome |-> "fatal", report |-> <<>>]
Report(lines) == [outcome |-> "ok", report |-> lines]

\* the numbered steps for the missing paths, from number 1 on
CreateSteps(missing) == [k \in 1..Len(missing) |-> PlanLine(k, "create", missing[k])]

\* the section of the required structure
StructureLines(missing, ok_text) ==
    IF missing # <<>>
    THEN <<Txt("Missing:")>> \o [k \in 1..Len(missing) |-> MissingLine(missing[k])]
    ELSE <<Txt(ok_text)>>

\* re.search(r'include_router\(.+prefix\s*=\s*[quote]/vN[quote]', main_py):
\* the prefix on the line of the call, something between the two
IncludesPrefix(main_py, prefix) ==
    \E i \in 1..Len(main_py), j \in 1..Len(main_py) :
        /\ main_py[i] = "include_router("
        /\ j >= i + 2
        /\ main_py[j] = prefix
        /\ \A k \in (i + 1)..(j - 1) : main_py[k] # NL

\* _find_include_router_versions of src/scripts/audit_fastapi_project.py
FindIncludeRouterVersions(main_py) ==
    [v1 |-> IncludesPrefix(main_py, "prefix='/v1'"),
     v2 |-> IncludesPrefix(main_py, "prefix='/v2'")]

\* the client modules the model holds, in the order glob lists them
ClientModules == << "src/services/clients/c.py" >>

\* the loop of _client_singleton_heuristic over the py files: a module
\* without one of the marks is a finding, a module that cannot be read ends
\* the run
RECURSIVE SingletonLoop(_, _, _, _)
SingletonLoop(tree, py_files, marks, acc) ==
    IF py_files = <<>> THEN acc
    ELSE LET f == Head(py_files)
             r == ReadText(tree, f)
         IN  IF ~r.ok THEN [ok |-> FALSE, findings |-> <<>>]
             ELSE SingletonLoop(tree, Tail(py_files), marks,
                    IF \E m \in marks : Holds(r.text, m) THEN acc
                    ELSE [acc EXCEPT !.findings = @ \o <<FindingLine("not_singleton", f)>>])

\* _client_singleton_heuristic, the marks being those of the variant
SingletonHeuristic(tree, marks) ==
    LET client_dir == "src/services/clients"
        py_files == SelectSeq(ClientModules, LAMBDA f : f \in PyFilesIn(tree, client_dir))
    IN  IF ~PathExists(tree, client_dir)
        THEN [ok |-> TRUE, findings |-> <<FindingLine("missing_clients", client_dir)>>]
        ELSE IF py_files = <<>>
        THEN [ok |-> TRUE, findings |-> <<FindingLine("no_clients", client_dir)>>]
        ELSE SingletonLoop(tree, py_files, marks, [ok |-> TRUE, findings |-> <<>>])

\* _client_singleton_heuristic of src/scripts/audit_fastapi_project.py
ClientSingletonHeuristic(tree) ==
    SingletonHeuristic(tree, {"@lru_cache", "Singleton", "_instance"})

\* audit of src/scripts/audit_fastapi_project.py
Audit(tree) ==
    LET missing == MissingPaths(tree, REQUIRED_PATHS)
        main_text == ReadText(tree, "src/main.py")
        versions == FindIncludeRouterVersions(main_text.text)
        client == ClientSingletonHeuristic(tree)
        n1 == Len(missing) + 1
        n2 == IF versions.v1 THEN n1 ELSE n1 + 1
        n3 == IF client.findings # <<>> THEN n2 + 1 ELSE n2
        plan == CreateSteps(missing)
                \o (IF versions.v1 THEN <<>> ELSE <<PlanLine(n1, "include_v1", "src/main.py")>>)
                \o (IF client.findings # <<>>
                    THEN <<PlanLine(n2, "singletons", "src/services/clients")>> ELSE <<>>)
                \o <<PlanLine(n3, "quality_gates", "")>>
    IN  IF ~main_text.ok \/ ~client.ok THEN Fatal
        ELSE Report(
            <<Txt("# FastAPI Project Audit"), Txt("Project:"), Txt("")>>
            \o <<Txt("## 1) Required structure")>>
            \o StructureLines(missing, "OK: required paths exist.")
            \o <<Txt("")>>
            \o <<Txt("## 2) API versioning in src/main.py"),
                 Flag("- /v1 routers included:", versions.v1),
                 Flag("- /v2 routers included:", versions.v2), Txt("")>>
            \o <<Txt("## 3) Singleton external clients")>>
            \o (IF client.findings # <<>>
                THEN <<Txt("Findings:")>> \o client.findings
                ELSE <<Txt("OK: client singletons look reasonable.")>>)
            \o <<Txt("")>>
            \o <<Txt("## 4) Quick refactor plan (objective)")>>
            \o plan
            \o <<Txt("")>>)

CLIENT_LIB_HINTS ==
    { "httpx", "requests", "aiohttp", "sqlalchemy", "asyncpg", "psycopg",
      "psycopg2", "redis", "aioredis", "pymongo", "boto3", "botocore" }

\* [0-9a-zA-Z_]: the characters of the model that are none of these
IsWordChar(c) == c \notin {"-", " ", ".", "'"}

\* re.sub(r"[^0-9a-zA-Z_]+", "_", value)
RECURSIVE SubNonWord(_)
SubNonWord(value) ==
    IF value = <<>> THEN <<>>
    ELSE IF IsWordChar(Head(value)) THEN <<Head(value)>> \o SubNonWord(Tail(value))
    ELSE IF Len(value) > 1 /\ ~IsWordChar(value[2]) THEN SubNonWord(Tail(value))
    ELSE <<"_">> \o SubNonWord(Tail(value))

\* str.strip("_")
RECURSIVE StripUnderscores(_)
StripUnderscores(value) ==
    IF value # <<>> /\ Head(value) = "_" THEN StripUnderscores(Tail(value))
    ELSE IF value # <<>> /\ value[Len(value)] = "_"
    THEN StripUnderscores(SubSeq(value, 1, Len(value) - 1))
    ELSE value

\* _to_py_identifier
ToPyIdentifier(value) ==
    LET stripped == Lower(StripUnderscores(SubNonWord(value)))
        ident == IF stripped = <<>> THEN <<"service">> ELSE stripped
    IN  IF IsDigit(Head(ident)) THEN <<"svc_">> \o ident ELSE ident

\* the name of the project directory
BaseName == <<"proj">>

\* the value between quotes after SERVICE_NAME: str = in the text, from
\* position i on; the empty sequence when there is none
ServiceNameAt(cfg, i) ==
    IF /\ At(cfg, i, "SERVICE_NAME:str=")
       /\ At(cfg, i + 1, "'")
       /\ \E j \in (i + 3)..Len(cfg) :
             cfg[j] = "'" /\ \A k \in (i + 2)..(j - 1) : cfg[k] # "'"
    THEN LET j == CHOOSE j \in (i + 3)..Len(cfg) :
                     cfg[j] = "'" /\ \A k \in (i + 2)..(j - 1) : cfg[k] # "'"
         IN  SubSeq(cfg, i + 2, j - 1)
    ELSE <<>>

\* _infer_service_name: the first SERVICE_NAME of config.py, or the name of
\* the directory
InferServiceName(tree) ==
    LET cfg == ReadText(tree, "src/core/config.py")
        hits == { i \in 1..Len(cfg.text) : ServiceNameAt(cfg.text, i) # <<>> }
    IN  [ok |-> cfg.ok,
         name |-> IF hits = {} THEN BaseName
                  ELSE ServiceNameAt(cfg.text, CHOOSE i \in hits : \A h \in hits : i <= h)]

\* re.search(r"^\s*(import|from)\s+(hint)\b", text, re.M)
ImportsClientLib(text) ==
    \E i \in 1..Len(text) :
        /\ (i = 1 \/ text[i - 1] = NL)
        /\ LET a == SkipWs(text, i)
               b == SkipWs(text, a + 1)
           IN  /\ (At(text, a, "import") \/ At(text, a, "from"))
               /\ b > a + 1
               /\ b <= Len(text) /\ text[b] \in CLIENT_LIB_HINTS

RECURSIVE IsUnder(_, _)
IsUnder(p, root) ==
    p # "" /\ (ParentPath(p) = root \/ IsUnder(ParentPath(p), root))

\* root.rglob("*.py") for the roots of _detect_client_usage, one after the
\* other: the names ending with .py that the walk reaches
ScanList(tree) ==
    LET listed(root) ==
            IF PathStatus(tree, root) # "dir" THEN <<>>
            ELSE SelectSeq(<<"src/services/clients/c.py", "src/core/config.py", "src/main.py">>,
                    LAMBDA p : IsUnder(p, root) /\ PathExists(tree, p))
    IN  listed("src/api") \o listed("src/services") \o listed("src/core") \o listed("src")

RECURSIVE ScanImports(_, _)
ScanImports(tree, paths) ==
    IF paths = <<>> THEN [ok |-> TRUE, used |-> FALSE]
    ELSE LET r == ReadText(tree, Head(paths))
         IN  IF ~r.ok THEN [ok |-> FALSE, used |-> FALSE]
             ELSE IF ImportsClientLib(r.text) THEN [ok |-> TRUE, used |-> TRUE]
             ELSE ScanImports(tree, Tail(paths))

\* _detect_client_usage
DetectClientUsage(tree) ==
    LET pyproject == ReadText(tree, "pyproject.toml")
    IN  IF PathExists(tree, "src/services/clients") THEN [ok |-> TRUE, used |-> TRUE]
        ELSE IF ~pyproject.ok THEN [ok |-> FALSE, used |-> FALSE]
        ELSE IF \E hint \in CLIENT_LIB_HINTS : Holds(Lower(pyproject.text), hint)
        THEN [ok |-> TRUE, used |-> TRUE]
        ELSE ScanImports(tree, ScanList(tree))

\* the match of the regular expression of _find_v1_include_router at
\* position i: the call, an expression without comma, the comma, the prefix,
\* and a tail up to the first closing parenthesis
V1MatchAt(main_py, i) ==
    LET commas == { k \in (i + 1)..Len(main_py) : main_py[k] = "," }
        comma == IF commas = {} THEN 0 ELSE CHOOSE k \in commas : \A c \in commas : k <= c
        pre == SkipWs(main_py, comma + 1)
        closes == { k \in (pre + 1)..Len(main_py) : main_py[k] = ")" }
        close == IF closes = {} THEN 0 ELSE CHOOSE k \in closes : \A c \in closes : k <= c
    IN  [found |-> /\ At(main_py, i, "include_router(")
                   /\ comma > i + 1
                   /\ At(main_py, pre, "prefix='/v1'")
                   /\ close > 0,
         expr |-> IF comma > i + 1 THEN SubSeq(main_py, i + 1, comma - 1) ELSE <<>>,
         tail |-> IF close > 0 THEN SubSeq(main_py, pre + 1, close - 1) ELSE <<>>]

StripWs(text) ==
    LET keep == { i \in 1..Len(text) : ~IsWs(text[i]) }
    IN  IF keep = {} THEN <<>>
        ELSE SubSeq(text, CHOOSE i \in keep : \A k \in keep : i <= k,
                          CHOOSE i \in keep : \A k \in keep : i >= k)

\* _find_v1_include_router: (has_v1_prefix, has_tags, router_expr)
FindV1IncludeRouter(main_py) ==
    LET hits == { i \in 1..Len(main_py) : V1MatchAt(main_py, i).found }
    IN  IF hits = {} THEN [has_v1 |-> FALSE, has_tags |-> FALSE, router_expr |-> <<>>]
        ELSE LET m == V1MatchAt(main_py, CHOOSE i \in hits : \A h \in hits : i <= h)
             IN  [has_v1 |-> TRUE,
                  has_tags |-> Holds(m.tail, "tags=["),
                  router_expr |-> StripWs(m.expr)]

\* _is_generic_router_name
IsGenericRouterName(expr) ==
    Len(expr) = 1 /\ expr[1] \in {"router", "v1_router", "api_router", "routes", "r"}

\* _client_singleton_heuristic of the fastapi-architect skill
ArchitectClientSingletonHeuristic(tree) ==
    SingletonHeuristic(tree, {"@lru_cache", "_instance"})

Hint(text, alias) == [text |-> text, alias |-> alias]

\* audit of skills/fastapi-architect/scripts/audit_fastapi_project.py
ArchitectAudit(tree) ==
    LET service == InferServiceName(tree)
        service_py == ToPyIdentifier(service.name)
        missing == MissingPaths(tree, BASE_REQUIRED_PATHS)
        main_text == ReadText(tree, "src/main.py")
        v1 == FindV1IncludeRouter(main_text.text)
        generic == v1.router_expr # <<>> /\ IsGenericRouterName(v1.router_expr)
        clients == DetectClientUsage(tree)
        client == IF clients.used THEN ArchitectClientSingletonHeuristic(tree)
                  ELSE [ok |-> TRUE, findings |-> <<>>]
        n1 == Len(missing) + 1
        n2 == IF ~v1.has_v1 \/ generic THEN n1 + 1 ELSE n1
        n3 == IF v1.has_v1 /\ ~v1.has_tags THEN n2 + 1 ELSE n2
        n4 == IF clients.used THEN n3 + 1 ELSE n3
        plan == CreateSteps(missing)
                \o (IF ~v1.has_v1
                    THEN <<PlanLine(n1, "include_v1", "src/main.py"),
                           Hint("   - Recommended:", service_py)>>
                    ELSE (IF generic THEN <<PlanLine(n1, "rename_alias", "src/main.py")>> ELSE <<>>)
                         \o (IF ~v1.has_tags THEN <<PlanLine(n2, "add_tags", "src/main.py")>> ELSE <<>>))
                \o (IF clients.used
                    THEN <<PlanLine(n3, "singletons", "src/services/clients")>> ELSE <<>>)
                \o <<PlanLine(n4, "quality_gates", "")>>
    IN  IF ~service.ok \/ ~main_text.ok \/ ~clients.ok \/ ~client.ok THEN Fatal
        ELSE Report(
            <<Txt("# FastAPI Project Audit"), Txt("Project:"),
              [text |-> "Inferred service name:", name |-> service.name, alias |-> service_py],
              Txt("")>>
            \o <<Txt("## 1) Required structure")>>
            \o StructureLines(missing, "OK: base required paths exist.")
            \o <<Txt("")>>
            \o <<Txt("## 2) API versioning and router naming (src/main.py)")>>
            \o (IF ~v1.has_v1
                THEN <<Txt("- Missing /v1 router include. Expected:"), Hint("  app.include_router", service_py)>>
                ELSE <<Txt("- /v1 router include found.")>>
                     \o (IF generic THEN <<[text |-> "- Router variable name looks generic",
                                            expr |-> v1.router_expr, alias |-> service_py]>> ELSE <<>>)
                     \o (IF ~v1.has_tags THEN <<Hint("- Missing tags on /v1 include.", service_py)>> ELSE <<>>))
            \o <<Txt("")>>
            \o <<Txt("## 3) External clients (only if needed)")>>
            \o (IF ~clients.used
                THEN <<Txt("No client usage detected. Skipping clients requirements and checks.")>>
                ELSE <<Txt("Client usage detected. Enforcing clients best practices.")>>
                     \o (IF client.findings # <<>>
                         THEN <<Txt("Findings:")>> \o client.findings
                         ELSE <<Txt("OK: client singletons look reasonable.")>>))
            \o <<Txt("")>>
            \o <<Txt("## 4) Quick refactor plan (objective)")>>
            \o plan
            \o <<Txt("")>>)

\* ------------------------------------------------------------------------
\* The structural auditors on a project directory: runs of either auditor,
\* and the user replacing or deleting an inspected path between the runs
\* ------------------------------------------------------------------------

\* a project that has every inspected path
CompleteProject ==
    [p \in ProjectPaths |->
        CASE p = "pyproject.toml" -> TextPath(<<"fastapi">>)
          [] p = "src/main.py" ->
                TextPath(<<"include_router(", "orders_router", ",", " ", "prefix='/v1'",
                           ",", "tags=[", "]", ")", NL>>)
          [] p = "src/core/config.py" -> TextPath(<<"DEBUG", NL>>)
          [] p = "src/services/clients/c.py" -> TextPath(<<"@lru_cache", NL>>)
          [] OTHER -> DirPath]

\* what the user may leave at an inspected path
HandEntries(p) ==
    CASE p = "" -> {NoPath}
      [] p = "pyproject.toml" -> {NoPath, DirPath}
      [] p = "src" -> {TextPath(<<>>)}
      [] p = "src/main.py" ->
            {NoPath, DirPath, Unreadable,
             TextPath(<<"include_router(", " ", "router", ",", "prefix='/v1'", ")", NL>>)}
      [] p = "src/core/config.py" ->
            {NoPath, TextPath(<<"SERVICE_NAME:str=", "'", "1", "-", "A", "'", NL>>)}
      [] p = "src/services/clients" -> {NoPath, TextPath(<<>>)}
      [] p = "src/services/clients/c.py" ->
            {NoPath, DirPath, TextPath(<<"import", " ", "httpx", NL>>)}
      [] p = "tests" -> {NoPath}
      [] OTHER -> {}

AuditRun(op, variant, result, before) ==
    [op |-> op, variant |-> variant, outcome |-> result.outcome,
     report |-> result.report, filesBefore |-> before]

InitStructure ==
    /\ skill = "structure"
    /\ audit = EmptyAudit("tests")
    /\ ledger = NoFile
    /\ files = CompleteProject
    /\ run = AuditRun("none", "", Report(<<>>), files)
    /\ artifact = NoFile
    /\ config = NoConfig
    /\ edits = 0

RunAudit ==
    /\ skill = "structure"
    /\ run' = AuditRun("audit", "scripts", Audit(files), files)
    /\ UNCHANGED <<skill, audit, ledger, files, artifact, config, edits>>

RunArchitectAudit ==
    /\ skill = "structure"
    /\ run' = AuditRun("audit", "architect", ArchitectAudit(files), files)
    /\ UNCHANGED <<skill, audit, ledger, files, artifact, config, edits>>

UserReplacePath ==
    /\ skill = "structure"
    /\ edits < MaxEdits
    /\ \E p \in ProjectPaths :
        \E e \in HandEntries(p) :
            /\ files[p] # e
            /\ files' = [files EXCEPT ![p] = e]
    /\ run' = AuditRun("edit", "", Report(<<>>), files)
    /\ edits' = edits + 1
    /\ UNCHANGED <<skill, audit, ledger, artifact, config>>

NextStructure ==
    \/ RunAudit
    \/ RunArchitectAudit
    \/ UserReplacePath

SpecStructure == InitStructure /\ [][NextStructure]_vars

\* the paths a variant requires
RequiredOf(variant) ==
    IF variant = "scripts" THEN REQUIRED_PATHS ELSE BASE_REQUIRED_PATHS

\* the paths the report lists under Missing, in their order
ListedMissing(report) ==
    LET lines == SelectSeq(report, LAMBDA l : "missing" \in DOMAIN l)
    IN  [k \in 1..Len(lines) |-> lines[k].missing]

\* every required path that does not exist is listed as missing, with the
\* plan step of its number
MissingReported ==
    LET required == RequiredOf(run.variant)
        listed == ListedMissing(run.report)
    IN  /\ listed = SelectSeq(required, LAMBDA p : ~PathExists(run.filesBefore, p))
        /\ \A k \in 1..Len(listed) :
              \E i \in 1..Len(run.report) : run.report[i] = PlanLine(k, "create", listed[k])

\* C20: for every state of the project directory an audit returns a report,
\* writes nothing, and lists each absent required path as missing with the
\* plan step of its number
C20_AuditNeverFails ==
    run.op = "audit" =>
        /\ run.outcome = "ok"
        /\ files = run.filesBefore
        /\ MissingReported

\* a project in which every path the auditors read is a text file or is not
\* there, and no directory above such a path is a file
Readable(tree) ==
    \A p \in PyNames \cup {"pyproject.toml"} : PathStatus(tree, p) \in {"absent", "file"}

\* what holds of the auditors: on a readable project, with or without the
\* project directory, the report is returned with the missing paths
C20_ReportsWhenReadable ==
    (run.op = "audit" /\ Readable(run.filesBefore)) =>
        /\ run.outcome = "ok"
        /\ files = run.filesBefore
        /\ MissingReported

C20_WitnessMissingProject ==
    /\ run.op = "audit"
    /\ run.outcome = "ok"
    /\ ~PathExists(files, "")
    /\ Len(ListedMissing(run.report)) = Len(RequiredOf(run.variant))

\* ------------------------------------------------------------------------
\* The codebook generator step by step: main up to the test of
\* --config-only, the interactive preflight, and main from the read of the
\* artifact on
\* ------------------------------------------------------------------------

\* mutant: the save of the mutated config drops the last emitted version
MainLoad_ForgetsVersion(file, existing_md, args) ==
    LET tree == WorkingTree(existing_md)
        loaded == LoadConfig(file)
        cfg2 == ApplyConfigMutations(loaded.cfg, args, tree)
    IN  [outcome |-> loaded.outcome, loaded |-> loaded.cfg, cfg |-> cfg2,
         file |-> IF cfg2 # loaded.cfg
                  THEN SaveConfig([cfg2 EXCEPT !.codebook_version = Absent])
                  ELSE loaded.file,
         saved |-> cfg2 # loaded.cfg]

\* main, lines 729-732: the config is loaded, the command line is applied to
\* it, and the result is saved when it differs from what was loaded
MainLoad(file, existing_md, args) ==
    LET tree == WorkingTree(existing_md)
        loaded == LoadConfig(file)
        cfg2 == ApplyConfigMutations(loaded.cfg, args, tree)
    IN  IF loaded.outcome = "fatal"
        THEN [outcome |-> "fatal", loaded |-> loaded.cfg, cfg |-> loaded.cfg,
              file |-> file, saved |-> FALSE]
        ELSE [outcome |-> "ok", loaded |-> loaded.cfg, cfg |-> cfg2,
              file |-> IF cfg2 # loaded.cfg THEN SaveConfig(cfg2) ELSE loaded.file,
              saved |-> cfg2 # loaded.cfg]

\* main, lines 741-761, with the config cfg2 in memory: the version, the
\* tree, the file list, the artifact, and the config with the version
MainGenerate(cfg2, file2, existing_md, tool, git_ok) ==
    LET tree == WorkingTree(existing_md)
        version == NextCodebookVersion(cfg2, existing_md)
        tree_out == TreeOutput(tree, cfg2, tool)
        paths == FileList(tree, cfg2)
    IN  IF ~git_ok
        THEN [outcome |-> "fatal", failed |-> "listing", config |-> file2,
              artifact |-> existing_md, written |-> FALSE, version |-> version]
        ELSE [outcome |-> "ok", failed |-> "",
              config |-> SaveConfig([cfg2 EXCEPT !.codebook_version = version]),
              artifact |-> File(RenderTemplate(version, tree_out, paths)),
              written |-> TRUE, version |-> version]

\* _prompt_choice on one line of input: the choice, or 0 for a line that is
\* neither 1 nor 2 (the prompt is shown again)
PromptChoice(raw) ==
    IF Strip(raw) = <<"1">> THEN 1
    ELSE IF Strip(raw) = <<"2">> THEN 2
    ELSE 0

\* a round that keeps the new entries in memory only
IgnoreRound_NoSave(tree, cfg, file, raw_entries) ==
    [cfg |-> [cfg EXCEPT !.ignore_globs_extra = AddIgnores(tree, @, raw_entries)],
     file |-> file,
     added |-> AddIgnores(tree, cfg.ignore_globs_extra, raw_entries) # cfg.ignore_globs_extra]

\* _interactive_ignore_flow, lines 656-670: the entries of a round are
\* canonicalized, the new ones are appended, and the config is saved when
\* one was added
IgnoreRound(tree, cfg, file, raw_entries) ==
    LET ignore == AddIgnores(tree, cfg.ignore_globs_extra, raw_entries)
        added == ignore # cfg.ignore_globs_extra
        cfg_new == [cfg EXCEPT !.ignore_globs_extra = ignore]
    IN  [cfg |-> IF added THEN cfg_new ELSE cfg,
         file |-> IF added THEN SaveConfig(cfg_new) ELSE file,
         added |-> added]

\* ------------------------------------------------------------------------
\* The codebook generator with its interactive preflight: a run starts with
\* a command line on a terminal or not, waits at the prompts of the
\* preflight for the lines the user types, and generates when the flow
\* returns.  run holds the position of main and its config in memory.
\* ------------------------------------------------------------------------

\* the command lines of the runs
PreflightCommandLines ==
    { NoArgs,
      [NoArgs EXCEPT !.config_only = TRUE],
      [NoArgs EXCEPT !.add_ignore = << <<"b">> >>, !.config_only = TRUE] }

\* the lines the user may type at a menu and at the prompt of the paths
MenuInputs == { <<"1">>, <<" ", "2">>, <<"x">>, <<>> }
PathInputs == { <<"b">>, <<" ", "f", " ">>, <<" ">> }

MainAt(pc, args, non_interactive, isatty, cfg) ==
    [pc |-> pc, args |-> args, non_interactive |-> non_interactive,
     isatty |-> isatty, cfg |-> cfg, out |-> <<>>, prompted |-> FALSE,
     left |-> <<>>, reprompted |-> FALSE, outcome |-> "ok", generated |-> FALSE,
     version |-> <<>>]

InitPreflight ==
    /\ skill = "codebook"
    /\ audit = EmptyAudit("tests")
    /\ ledger = NoFile
    /\ files = << >>
    /\ run = MainAt("idle", NoArgs, FALSE, FALSE, DefaultConfig)
    /\ artifact = NoFile
    /\ config = NoConfig
    /\ edits = 0

\* main from line 741 on, for the position at and the config file as the
\* steps before left it
FinishMain(at, file) ==
    \E r \in {MainGenerate(at.cfg, file, artifact, "walk", TRUE)} :
        /\ DigitsToInt(SplitDots(r.version, 1, <<>>)[3]) <= MaxRuns
        /\ artifact' = r.artifact
        /\ config' = r.config
        /\ run' = [at EXCEPT !.pc = "done", !.outcome = r.outcome,
                             !.generated = r.written, !.version = r.version]

\* a run starts: main up to the preflight, or to its end when there is none
StartMain ==
    /\ skill = "codebook"
    /\ run.pc \in {"idle", "done"}
    /\ \E args \in PreflightCommandLines, non_interactive \in BOOLEAN, isatty \in BOOLEAN :
        \E l \in {MainLoad(config, artifact, args)} :
            LET at == MainAt("start", args, non_interactive, isatty, l.cfg)
            IN  IF args.config_only
                THEN /\ run' = [at EXCEPT !.pc = "done"]
                     /\ config' = l.file
                     /\ UNCHANGED artifact
                ELSE IF (~non_interactive) /\ isatty
                THEN /\ run' = [at EXCEPT !.pc = "menu1", !.prompted = TRUE]
                     /\ config' = l.file
                     /\ UNCHANGED artifact
                ELSE FinishMain(at, l.file)
    /\ UNCHANGED <<skill, audit, ledger, files, edits>>

\* the user types a line at one of the two menus
AnswerMenu ==
    /\ skill = "codebook"
    /\ run.pc \in {"menu1", "menu2"}
    /\ \E raw \in MenuInputs :
        LET choice == PromptChoice(raw)
        IN  IF choice = 0
            THEN /\ run' = [run EXCEPT !.reprompted = TRUE]
                 /\ UNCHANGED <<config, artifact>>
            ELSE IF (run.pc = "menu1" /\ choice = 2) \/ (run.pc = "menu2" /\ choice = 1)
            THEN FinishMain([run EXCEPT !.left = Strip(raw)], config)
            ELSE /\ run' = [run EXCEPT !.pc = IF run.pc = "menu1" THEN "paths" ELSE "menu1",
                                       !.out = <<>>]
                 /\ UNCHANGED <<config, artifact>>
    /\ UNCHANGED <<skill, audit, ledger, files, edits>>

\* the user types a line at the prompt of the paths: an empty line ends the
\* round
EnterPath ==
    /\ skill = "codebook"
    /\ run.pc = "paths"
    /\ \E raw \in PathInputs :
        LET line == Strip(raw)
        IN  IF line # <<>>
            THEN /\ Len(run.out) < MaxLines
                 /\ run' = [run EXCEPT !.out = Append(@, line)]
                 /\ UNCHANGED config
            ELSE \E r \in {IgnoreRound(WorkingTree(artifact), run.cfg, config, run.out)} :
                    /\ run' = [run EXCEPT !.pc = "menu2", !.cfg = r.cfg]
                    /\ config' = r.file
    /\ UNCHANGED <<skill, audit, ledger, files, artifact, edits>>

NextPreflight ==
    \/ StartMain
    \/ AnswerMenu
    \/ EnterPath

SpecPreflight == InitPreflight /\ [][NextPreflight]_vars

\* the parts of the claim that hold whatever decides that the flow runs:
\* at a menu and after the flow the persisted list is the one in memory, and
\* the flow was left on a proceed option
PersistedEqualsMemory ==
    (run.pc \in {"menu1", "menu2"} \/ (run.pc = "done" /\ run.prompted)) =>
        PersistedIgnores = run.cfg.ignore_globs_extra

LeftOnProceed ==
    (run.pc = "done" /\ run.prompted) => run.left \in { <<"1">>, <<"2">> }

C21_WitnessWaiting ==
    /\ run.pc = "menu2"
    /\ run.cfg.ignore_globs_extra # <<>>
    /\ PersistedIgnores = run.cfg.ignore_globs_extra

\* a run with --config-only on a terminal ended without a prompt
C21_WitnessConfigOnly ==
    /\ run.pc = "done"
    /\ run.args.config_only
    /\ run.isatty /\ ~run.non_interactive
    /\ ~run.prompted

\* ------------------------------------------------------------------------
\* Two runs of the codebook generator on one repository at the same time:
\* each run is a process that takes the steps of main one after the other,
\* and the steps of the two interleave.  run holds the position and the
\* memory of each process, and which process saved the config last.
\* ------------------------------------------------------------------------

Procs == {1, 2}

\* the command lines of the two runs
RaceCommandLines ==
    { NoArgs, [NoArgs EXCEPT !.add_ignore = << <<"b">> >>] }

ProcAt(pc, args, cfg, loaded) ==
    [pc |-> pc, args |-> args, cfg |-> cfg, loaded |-> loaded,
     saved |-> <<>>, existing_md |-> NoFile, version |-> <<>>]

\* the save of a config that keeps the ignore list of the file
StampConfig_KeepFile(cfg2, version, file) ==
    IF file.kind = "object" /\ DOMAIN file.ignore_globs_extra = {"list"}
    THEN SaveConfig([cfg2 EXCEPT !.codebook_version = version,
                                 !.ignore_globs_extra = file.ignore_globs_extra.list])
    ELSE SaveConfig([cfg2 EXCEPT !.codebook_version = version])

\* main, lines 760-761: cfg3 is cfg2 with the version, and it replaces the
\* config file whatever the file holds
StampConfig(cfg2, version, file) ==
    SaveConfig([cfg2 EXCEPT !.codebook_version = version])

InitRace ==
    /\ skill = "codebook"
    /\ audit = EmptyAudit("tests")
    /\ ledger = NoFile
    /\ files = << >>
    /\ run = [proc |-> [p \in Procs |-> ProcAt("start", NoArgs, DefaultConfig, DefaultConfig)],
              last_save |-> 0]
    /\ artifact = NoFile
    /\ config = NoConfig
    /\ edits = 0

\* line 729-730: the process reads the config and applies its command line
ProcLoad(p) ==
    /\ run.proc[p].pc = "start"
    /\ \E args \in RaceCommandLines :
        \E l \in {LoadConfig(config)} :
            /\ l.outcome = "ok"
            /\ config' = l.file
            /\ run' = [run EXCEPT !.proc[p] =
                         ProcAt("loaded", args,
                                ApplyConfigMutations(l.cfg, args, WorkingTree(artifact)),
                                l.cfg)]
    /\ UNCHANGED <<skill, audit, ledger, files, artifact, edits>>

\* line 731-732: the process saves its config when the command line changed it
ProcSaveMutations(p) ==
    /\ run.proc[p].pc = "loaded"
    /\ IF run.proc[p].cfg # run.proc[p].loaded
       THEN /\ config' = SaveConfig(run.proc[p].cfg)
            /\ run' = [run EXCEPT !.proc[p].pc = "mutated",
                                  !.proc[p].saved = run.proc[p].cfg.ignore_globs_extra,
                                  !.last_save = p]
       ELSE /\ run' = [run EXCEPT !.proc[p].pc = "mutated"]
            /\ UNCHANGED config
    /\ UNCHANGED <<skill, audit, ledger, files, artifact, edits>>

\* line 741-742: the process reads the artifact and computes its version
ProcReadArtifact(p) ==
    /\ run.proc[p].pc = "mutated"
    /\ run' = [run EXCEPT !.proc[p].pc = "versioned",
                          !.proc[p].existing_md = artifact,
                          !.proc[p].version = NextCodebookVersion(run.proc[p].cfg, artifact)]
    /\ UNCHANGED <<skill, audit, ledger, files, artifact, config, edits>>

\* line 744-757: the process lists the repository and writes the artifact
ProcWriteArtifact(p) ==
    /\ run.proc[p].pc = "versioned"
    /\ LET tree == WorkingTree(artifact)
           me == run.proc[p]
       IN  artifact' = File(RenderTemplate(me.version, TreeOutput(tree, me.cfg, "walk"),
                                           FileList(tree, me.cfg)))
    /\ run' = [run EXCEPT !.proc[p].pc = "written"]
    /\ UNCHANGED <<skill, audit, ledger, files, config, edits>>

\* line 760-761: the process saves its config with the version
ProcSaveVersion(p) ==
    /\ run.proc[p].pc = "written"
    /\ config' = StampConfig(run.proc[p].cfg, run.proc[p].version, config)
    /\ run' = [run EXCEPT !.proc[p].pc = "done", !.last_save = p]
    /\ UNCHANGED <<skill, audit, ledger, files, artifact, edits>>

NextRace ==
    \E p \in Procs :
        \/ ProcLoad(p)
        \/ ProcSaveMutations(p)
        \/ ProcReadArtifact(p)
        \/ ProcWriteArtifact(p)
        \/ ProcSaveVersion(p)

SpecRace == InitRace /\ [][NextRace]_vars

\* C22: nothing locks the config between two runs: the last save of a run
\* writes the ignore list and the version the run holds in memory, whatever
\* the other run persisted in between
C22_NoLocking ==
    \A p \in Procs :
        (run.last_save = p /\ run.proc[p].pc = "done") =>
            /\ PersistedIgnores = run.proc[p].cfg.ignore_globs_extra
            /\ config.codebook_version = run.proc[p].version

\* both runs have ended, one persisted the entry of its --add-ignore, and
\* the later save of the other run lost it
C22_WitnessLostIgnore ==
    /\ \A p \in Procs : run.proc[p].pc = "done"
    /\ \E p \in Procs :
          /\ run.proc[p].saved # <<>>
          /\ PersistedIgnores = <<>>
          /\ run.last_save # p

\* both runs have ended and stamped the same version
C22_WitnessSameVersion ==
    /\ \A p \in Procs : run.proc[p].pc = "done"
    /\ run.proc[1].version = run.proc[2].version
    /\ run.proc[1].version # <<>>

\* ------------------------------------------------------------------------
\* The codebook generator, file by file: the description and the content
\* block of a listed file.  The content of a file is a sequence of bytes:
\* letters, spaces, newlines, the mark of a docstring, and BAD for a byte
\* that is not UTF-8; its size is the length of the sequence.
\* ------------------------------------------------------------------------

BAD == "<ff>"
TRIPLE_DQ == "<3dq>"
TRIPLE_SQ == "<3sq>"

\* read_text(encoding="utf-8"): fails on a byte that is not UTF-8
DecodesStrict(bytes) == \A i \in 1..Len(bytes) : bytes[i] # BAD

\* read_text(encoding="utf-8", errors="ignore"): such bytes are dropped
DecodeIgnore(bytes) == SelectSeq(bytes, LAMBDA b : b # BAD)

\* _is_binary_or_too_large without the test of the size
IsBinaryOrTooLarge_AnySize(bytes, max_bytes) == ~DecodesStrict(bytes)

\* _is_binary_or_too_large
IsBinaryOrTooLarge(bytes, max_bytes) ==
    IF Len(bytes) > max_bytes THEN TRUE
    ELSE ~DecodesStrict(bytes)

\* _is_effectively_empty
IsEffectivelyEmpty(bytes) ==
    IF Len(bytes) = 0 THEN TRUE
    ELSE LStripWs(DecodeIgnore(bytes)) = <<>>

\* text.splitlines()
RECURSIVE SplitLines(_, _)
SplitLines(text, line) ==
    IF text = <<>> THEN (IF line = <<>> THEN <<>> ELSE <<line>>)
    ELSE IF Head(text) = NL THEN <<line>> \o SplitLines(Tail(text), <<>>)
    ELSE SplitLines(Tail(text), Append(line, Head(text)))

\* the first line that, stripped, is not empty and does not start with a
\* docstring mark, cut to 140 characters; the empty sequence when none is
RECURSIVE FirstTextLine(_)
FirstTextLine(lines) ==
    IF lines = <<>> THEN <<>>
    ELSE LET st == Strip(Head(lines))
         IN  IF st = <<>> \/ Head(st) \in {TRIPLE_DQ, TRIPLE_SQ}
             THEN FirstTextLine(Tail(lines))
             ELSE SubSeq(st, 1, IF Len(st) < 140 THEN Len(st) ELSE 140)

Skipped(why) == [skipped |-> why]
Described(text) == [described |-> text]

\* _one_line_description
OneLineDescription(bytes, cfg) ==
    IF cfg.skip_empty_files /\ IsEffectivelyEmpty(bytes) THEN Skipped("empty file")
    ELSE IF IsBinaryOrTooLarge(bytes, cfg.max_text_file_bytes)
    THEN Skipped("binary or too large")
    ELSE LET line == FirstTextLine(SplitLines(DecodeIgnore(bytes), <<>>))
         IN  IF line = <<>> THEN Described(<<"Empty file.">>) ELSE Described(line)

\* _render_descriptions: one line for each path
RenderDescriptions(tree, paths, cfg) ==
    [i \in 1..Len(paths) |->
        [path |-> paths[i], description |-> OneLineDescription(tree[paths[i]], cfg)]]

\* _render_code_blocks: a fenced block, a line for a file that is binary or
\* too large, nothing for an empty file that is skipped
RECURSIVE RenderCodeBlocks(_, _, _)
RenderCodeBlocks(tree, paths, cfg) ==
    IF paths = <<>> THEN <<>>
    ELSE LET rel == Head(paths)
             rest == RenderCodeBlocks(tree, Tail(paths), cfg)
         IN  IF cfg.skip_empty_files /\ IsEffectivelyEmpty(tree[rel]) THEN rest
             ELSE IF IsBinaryOrTooLarge(tree[rel], cfg.max_text_file_bytes)
             THEN <<[path |-> rel, skipped |-> "binary or too large"]>> \o rest
             ELSE <<[fence |-> rel, content |-> tree[rel]]>> \o rest

\* ------------------------------------------------------------------------
\* The rendering of the listed files: the user writes the files of the
\* repository, and a run renders them under the settings of its config
\* ------------------------------------------------------------------------

\* the listed paths, sorted
ListedPaths == << "f", "g" >>

\* what the user may write into a file
HandBytes ==
    { <<>>, <<" ", NL>>, <<"a">>, <<BAD>>, <<BAD, " ">>, <<"a", "b", "c">>,
      <<" ", NL, TRIPLE_DQ, "d", NL, " ", "a">> }

\* the settings a run may have loaded
RenderSettings ==
    { [DefaultConfig EXCEPT !.skip_empty_files = skip, !.max_text_file_bytes = max] :
        skip \in BOOLEAN, max \in {2, DEFAULT_MAX_TEXT_FILE_BYTES} }

InitRender ==
    /\ skill = "codebook"
    /\ audit = EmptyAudit("tests")
    /\ ledger = NoFile
    /\ files = [p \in {"f", "g"} |-> <<"a">>]
    /\ run = [op |-> "none", cfg |-> DefaultConfig, descriptions |-> <<>>, blocks |-> <<>>]
    /\ artifact = NoFile
    /\ config = NoConfig
    /\ edits = 0

RenderFiles ==
    /\ skill = "codebook"
    /\ \E cfg \in RenderSettings :
        run' = [op |-> "render", cfg |-> cfg,
                descriptions |-> RenderDescriptions(files, ListedPaths, cfg),
                blocks |-> RenderCodeBlocks(files, ListedPaths, cfg)]
    /\ UNCHANGED <<skill, audit, ledger, files, artifact, config, edits>>

UserWriteBytes ==
    /\ skill = "codebook"
    /\ edits < MaxEdits
    /\ \E p \in DOMAIN files, b \in HandBytes :
        /\ files[p] # b
        /\ files' = [files EXCEPT ![p] = b]
    /\ run' = [op |-> "edit", cfg |-> DefaultConfig, descriptions |-> <<>>, blocks |-> <<>>]
    /\ edits' = edits + 1
    /\ UNCHANGED <<skill, audit, ledger, artifact, config>>

NextRender ==
    \/ RenderFiles
    \/ UserWriteBytes

SpecRender == InitRender /\ [][NextRender]_vars

\* the file of a path is written in full in the blocks
HasBlock(p) ==
    \E j \in 1..Len(run.blocks) : run.blocks[j] = [fence |-> p, content |-> files[p]]

\* the entries of a path in the description list
DescriptionsOf(p) ==
    { i \in 1..Len(run.descriptions) : run.descriptions[i].path = p }

\* the three tests of the claim, on the bytes of the file
EmptyOrWhitespace(bytes) == \A i \in 1..Len(bytes) : bytes[i] \in {" ", NL}
WithinSize(bytes) == Len(bytes) <= run.cfg.max_text_file_bytes
IsUtf8(bytes) == BAD \notin { bytes[i] : i \in 1..Len(bytes) }

\* C23: every listed file has exactly one description; it has a content
\* block iff it is not empty or whitespace (when these are skipped), not
\* larger than the maximum and UTF-8; its description is a skipped entry
\* exactly when it has no block
C23_Classification ==
    run.op = "render" =>
        \A k \in 1..Len(ListedPaths) :
            LET p == ListedPaths[k]
                d == DescriptionsOf(p)
            IN  /\ Cardinality(d) = 1
                /\ HasBlock(p) <=>
                      /\ ~(run.cfg.skip_empty_files /\ EmptyOrWhitespace(files[p]))
                      /\ WithinSize(files[p])
                      /\ IsUtf8(files[p])
                /\ \A i \in d :
                      ("skipped" \in DOMAIN run.descriptions[i].description) <=> ~HasBlock(p)

\* a run with a small maximum rendered a file that is too large next to one
\* that is not
C23_Witness ==
    /\ run.op = "render"
    /\ run.cfg.max_text_file_bytes = 2
    /\ Len(files["f"]) = 3
    /\ ~HasBlock("f")
    /\ HasBlock("g")

\* an empty file is written as an empty block when empty files are kept
C23_WitnessEmptyKept ==
    /\ run.op = "render"
    /\ ~run.cfg.skip_empty_files
    /\ files["f"] = <<>>
    /\ HasBlock("f")
    /\ run.descriptions[1].description = Described(<<"Empty file.">>)

\* ------------------------------------------------------------------------
\* The codebook generator with --config-only: runs with and without the
\* option, on a terminal or not, and between the runs the user deletes the
\* config, leaves one that is not JSON, or writes one by hand
\* ------------------------------------------------------------------------

\* the config files the user may leave between two runs
RestConfigs ==
    { NoConfig, CorruptConfig,
      ConfigFile("object", NoKey, FirstVersion, NoKey, NoKey, NoKey, NoKey),
      SaveConfig([DefaultConfig EXCEPT
                    !.ignore_globs_extra = << <<"b", "/", "*", "*">> >>,
                    !.codebook_version = FirstVersion]) }

UserWriteConfigAtRest ==
    /\ skill = "codebook"
    /\ run.pc \in {"idle", "done"}
    /\ edits < MaxEdits
    /\ \E f \in RestConfigs : f # config /\ config' = f
    /\ edits' = edits + 1
    /\ run' = MainAt("idle", NoArgs, FALSE, FALSE, DefaultConfig)
    /\ UNCHANGED <<skill, audit, ledger, files, artifact>>

NextConfigOnly ==
    \/ StartMain
    \/ AnswerMenu
    \/ EnterPath
    \/ UserWriteConfigAtRest

SpecConfigOnly == InitPreflight /\ [][NextConfigOnly]_vars

\* a step that is a whole run with --config-only
ConfigOnlyStep ==
    /\ run.pc \in {"idle", "done"}
    /\ run'.pc = "done"
    /\ run'.args.config_only

\* the last emitted version the config file holds
PersistedVersion ==
    IF config.kind = "object" THEN config.codebook_version ELSE Absent

\* the mutations of the command line change the config the run loaded
MutationsChange ==
    LET cfg == LoadConfig(config).cfg
    IN  ApplyConfigMutations(cfg, run'.args, WorkingTree(artifact)) # cfg

\* what a run with --config-only leaves alone whatever the config file was
ConfigOnlyFrame ==
    /\ artifact' = artifact
    /\ ~run'.prompted
    /\ PersistedVersion' = PersistedVersion

\* C24: a run with --config-only never changes the artifact, never prompts,
\* leaves the persisted last emitted version unchanged, and rewrites the
\* config file only if the requested mutations changed the config
C24_ConfigOnly ==
    [][ConfigOnlyStep => (ConfigOnlyFrame /\ (config' # config => MutationsChange))]_vars

\* C24 as amended: the config file is also written when it was missing or
\* not JSON (the default replaces it)
C24_ConfigOnlyOrRecovered ==
    [][ConfigOnlyStep =>
          /\ ConfigOnlyFrame
          /\ config' # config =>
                \/ MutationsChange
                \/ config.kind \in {"missing", "corrupt"} /\ config' = SaveConfig(DefaultConfig)]_vars

\* after a generation, a run with --config-only on a terminal added an entry
\* to the config and kept the version and the artifact
C24_Witness ==
    /\ run.pc = "done"
    /\ run.args.config_only
    /\ run.args.add_ignore # <<>>
    /\ run.isatty /\ ~run.non_interactive /\ ~run.prompted
    /\ artifact.exists
    /\ PersistedVersion = FirstVersion
    /\ PersistedIgnores = << <<"b", "/", "*", "*">> >>

\* a run with --config-only and no mutation replaced a config that was not
\* JSON by the default
C24_WitnessRecovered ==
    /\ run.pc = "done"
    /\ run.args = [NoArgs EXCEPT !.config_only = TRUE]
    /\ artifact.exists
    /\ config = SaveConfig(DefaultConfig)

\* ------------------------------------------------------------------------
\* The versions of a sequence of generations
\* ------------------------------------------------------------------------

\* C25: every generation leaves its version in the artifact and in the
\* config; on a fresh repository it stamps 1.0.0; a generation that follows
\* a generation with nothing modified in between stamps the version of that
\* one with PATCH + 1 and the same MAJOR.MINOR
C25_VersionMonotonic ==
    [][Generated' =>
          /\ IsSemver(run'.version)
          /\ Strip(MarkerOf(artifact')) = run'.version
          /\ config'.codebook_version = run'.version
          /\ (artifact = NoFile /\ config = NoConfig) => run'.version = FirstVersion
          /\ Generated =>
                LET old == VersionNumbers(run.version)
                    new == VersionNumbers(run'.version)
                IN  new = <<old[1], old[2], old[3] + 1>>]_vars

\* three generations on a fresh repository with nothing modified in between
C25_Witness ==
    /\ Generated
    /\ edits = 0
    /\ run.version = <<"1", ".", "0", ".", "2">>
    /\ run.configBefore.codebook_version = <<"1", ".", "0", ".", "1">>
    /\ config.codebook_version = run.version

\* two generations in a row after the user rewrote the marker: 2.3.2, 2.3.3
C25_WitnessAfterEdit ==
    /\ Generated
    /\ edits > 0
    /\ run.configBefore.codebook_version = <<"2", ".", "3", ".", "2">>
    /\ run.version = <<"2", ".", "3", ".", "3">>

\* ------------------------------------------------------------------------
\* The ignore list under --add-ignore and --remove-ignore: runs with
\* --config-only that add a pattern, remove one, or do both, on a config
\* that already holds a list.  run holds the last command line and the list
\* before and after it.
\* ------------------------------------------------------------------------

\* the patterns of the command lines: the directory b in its three
\* spellings, the file f behind prefixes, and a name that does not exist
RoundTripPatterns ==
    { <<"b">>, <<"b", "/">>, <<"b", "/", "*", "*">>,
      <<"f">>, <<".", "/", "f">>, <<".", "/", ".", "/", "f">>, <<"n">> }

\* the lists the config may hold before the first run
RoundTripLists ==
    { <<>>,
      << <<"n">> >>,
      << <<"b">>, <<"n">> >>,
      << <<"n">>, <<"b", "/", "*", "*">>, <<"f">> >> }

RoundTripAt(op, pattern, before, after) ==
    [op |-> op, pattern |-> pattern, before |-> before, after |-> after]

InitRoundTrip ==
    /\ skill = "codebook"
    /\ audit = EmptyAudit("tests")
    /\ ledger = NoFile
    /\ files = << >>
    /\ artifact = NoFile
    /\ \E l \in RoundTripLists :
          /\ config = SaveConfig([DefaultConfig EXCEPT !.ignore_globs_extra = l])
          /\ run = RoundTripAt("none", <<>>, l, l)
    /\ edits = 0

\* main with --config-only and the command line args
ConfigOnlyRun(op, pattern, args) ==
    /\ skill = "codebook"
    /\ edits < MaxEdits
    /\ \E l \in {MainLoad(config, artifact, args)} :
          /\ config' = l.file
          /\ run' = RoundTripAt(op, pattern, l.loaded.ignore_globs_extra,
                                l.cfg.ignore_globs_extra)
    /\ edits' = edits + 1
    /\ UNCHANGED <<skill, audit, ledger, files, artifact>>

RunAddIgnore ==
    \E P \in RoundTripPatterns :
        ConfigOnlyRun("add", P, [NoArgs EXCEPT !.add_ignore = <<P>>, !.config_only = TRUE])

RunRemoveIgnore ==
    \E P \in RoundTripPatterns :
        ConfigOnlyRun("remove", P, [NoArgs EXCEPT !.remove_ignore = <<P>>, !.config_only = TRUE])

RunAddAndRemove ==
    \E P \in RoundTripPatterns :
        ConfigOnlyRun("both", P,
                      [NoArgs EXCEPT !.add_ignore = <<P>>, !.remove_ignore = <<P>>,
                                     !.config_only = TRUE])

NextRoundTrip ==
    \/ RunAddIgnore
    \/ RunRemoveIgnore
    \/ RunAddAndRemove

SpecRoundTrip == InitRoundTrip /\ [][NextRoundTrip]_vars

\* the entries a run added to the list
StoredBy(r) == SeqToSet(r.after) \ SeqToSet(r.before)

\* the name a pattern is about: without blanks, a leading "./", "/**" and
\* trailing slashes
RECURSIVE WithoutDotSlash(_)
WithoutDotSlash(p) ==
    IF StartsWith(p, <<".", "/">>) THEN WithoutDotSlash(SubSeq(p, 3, Len(p))) ELSE p

NameOf(pat) ==
    LET p == RStripSlash(WithoutDotSlash(Strip(pat)))
    IN  RStripSlash(IF EndsWith(p, <<"/", "*", "*">>) THEN DropLast(p, 3) ELSE p)

\* how often an entry is in a list
Occurrences(list, e) == Cardinality({ k \in 1..Len(list) : list[k] = e })

\* the entries of a list that are not about the name of the pattern
UnrelatedTo(list, pat) ==
    LET Other(e) == NameOf(e) # NameOf(pat) IN SelectSeq(list, Other)

\* the persisted list is the one the run left
RoundTripPersisted == run.op # "none" => PersistedIgnores = run.after

\* a removal, alone or after the add of the same run, keeps the entries that
\* are not about its pattern, in their order
UnrelatedKept ==
    run.op # "none" =>
        /\ UnrelatedTo(run.after, run.pattern) = UnrelatedTo(run.before, run.pattern)
        /\ \A k \in 1..Len(run.before) :
              run.op = "add" => (k <= Len(run.after) /\ run.after[k] = run.before[k])

\* no run makes an entry occur more often than once or than before
NoDuplicateAdded ==
    \A e \in SeqToSet(run.after) :
        Occurrences(run.after, e) <= 1 \/ Occurrences(run.after, e) <= Occurrences(run.before, e)

\* C26: --add-ignore P followed by --remove-ignore P leaves the list without
\* the entry the add stored, in two runs or in one; the entries that are not
\* about P keep their presence and order; no add makes a duplicate
C26_AddRemoveRoundTrip ==
    [][/\ (run.op = "add" /\ run'.op = "remove" /\ run'.pattern = run.pattern)
            => StoredBy(run) \cap SeqToSet(PersistedIgnores') = {}
       /\ run'.op = "both" => SeqToSet(PersistedIgnores') \subseteq SeqToSet(run'.before)
       /\ RoundTripPersisted'
       /\ UnrelatedKept'
       /\ NoDuplicateAdded']_vars

\* the same for the patterns that a second _normalize_glob leaves as they are
C26_RoundTripOfNormalized ==
    [][/\ (run.op = "add" /\ run'.op = "remove" /\ run'.pattern = run.pattern
             /\ NormalizeGlob(NormalizeGlob(run.pattern)) = NormalizeGlob(run.pattern))
            => StoredBy(run) \cap SeqToSet(PersistedIgnores') = {}
       /\ (run'.op = "both"
             /\ NormalizeGlob(NormalizeGlob(run'.pattern)) = NormalizeGlob(run'.pattern))
            => SeqToSet(PersistedIgnores') \subseteq SeqToSet(run'.before)
       /\ RoundTripPersisted'
       /\ UnrelatedKept'
       /\ NoDuplicateAdded']_vars

\* ././f was added as ./f and the removal of ././f left it in the list
C26_WitnessLeftBehind ==
    /\ run.op = "remove"
    /\ run.pattern = <<".", "/", ".", "/", "f">>
    /\ run.before = << <<".", "/", "f">> >>
    /\ PersistedIgnores = << <<".", "/", "f">> >>

\* b was removed where the list held b/** between two other entries
C26_WitnessDirRemoved ==
    /\ run.op = "remove"
    /\ run.pattern = <<"b">>
    /\ run.before = << <<"n">>, <<"b", "/", "*", "*">>, <<"f">> >>
    /\ PersistedIgnores = << <<"n">>, <<"f">> >>

\* ------------------------------------------------------------------------
\* The identifiers of the tests skill: the audit tool proposes tests whose
\* ids carry whitespace, the generator writes the ledger, the user approves
\* and apply looks the items up
\* ------------------------------------------------------------------------

\* the tests the audit tool may propose: a plain id, one with whitespace
\* around it, and one with two blanks inside
AgreeItems ==
    { [id |-> <<"A">>, scope |-> Absent, content |-> <<"c">>, status |-> "proposed",
       file_path |-> <<"tests", "/", "a.py">>],
      [id |-> <<" ", "B", " ">>, scope |-> Absent, content |-> <<"c">>, status |-> "proposed",
       file_path |-> <<"tests", "/", "b.py">>],
      [id |-> <<"A", " ", " ", "B">>, scope |-> Absent, content |-> <<"c">>,
       status |-> "proposed", file_path |-> <<"tests", "/", "c.py">>] }

InitAgree ==
    /\ skill = "tests"
    /\ \E t \in AgreeItems :
          audit = [proposed_tests |-> <<t>>, applied |-> NoKey, summary |-> "s"]
    /\ ledger = NoFile
    /\ files = << >>
    /\ run = Idle("none", audit, ledger, files)
    /\ artifact = NoFile
    /\ config = NoConfig
    /\ edits = 0

\* the audit tool proposes one more test
AuditProposeTest ==
    /\ edits < MaxEdits
    /\ Len(audit.proposed_tests) < MaxItems
    /\ \E t \in AgreeItems :
          /\ \A i \in 1..Len(audit.proposed_tests) : audit.proposed_tests[i] # t
          /\ audit' = [audit EXCEPT !.proposed_tests = Append(@, t)]
    /\ edits' = edits + 1
    /\ run' = Idle("audit", audit', ledger, files)
    /\ UNCHANGED <<skill, ledger, files, artifact, config>>

NextAgree ==
    \/ AuditProposeTest
    \/ UserApprove
    \/ UpdateTestsProgress
    \/ ApplyTestsFromProgress

SpecAgree == InitAgree /\ [][NextAgree]_vars

\* the blocks of the ledger the run started from that carry the ID text the
\* generator writes for an item
EmittedBlocks(t) == BlocksOf(run.before, TestsItemId(t))

\* every block the generator emitted for the item is marked x
MarkedCreate(t) ==
    /\ EmittedBlocks(t) # {}
    /\ \A b \in EmittedBlocks(t) : Lower(BlockFlag(b)) = <<"x">>

\* C27: the ID text the generator writes for an item is the identifier
\* under which apply looks the item up: after a regeneration every item has
\* a block under its lookup identifier, and an apply run applies every item
\* whose emitted block is marked x
C27_IdsAgree ==
    /\ UpdatedOk =>
          \A i \in 1..Len(AuditItems) :
             BlocksOf(ledger, ApplyItemId(AuditItems[i])) # {}
    /\ AppliedOk =>
          \A i \in 1..Len(ProposedBefore) :
             MarkedCreate(ProposedBefore[i]) => i \in WrittenItems

\* the same for the ids without a run of whitespace inside
C27_AgreeWithoutInnerRuns ==
    /\ UpdatedOk =>
          \A i \in 1..Len(AuditItems) :
             CollapseWs(AuditItems[i].id) = AuditItems[i].id
                => BlocksOf(ledger, ApplyItemId(AuditItems[i])) # {}
    /\ AppliedOk =>
          \A i \in 1..Len(ProposedBefore) :
             (MarkedCreate(ProposedBefore[i])
                /\ CollapseWs(ProposedBefore[i].id) = ProposedBefore[i].id)
                => i \in WrittenItems

\* the block of the item with two blanks in its id was marked and the apply
\* run wrote nothing
C27_WitnessNotApplied ==
    /\ AppliedOk
    /\ Len(ProposedBefore) = 1
    /\ ProposedBefore[1].id = <<"A", " ", " ", "B">>
    /\ MarkedCreate(ProposedBefore[1])
    /\ run.written = <<>>

\* the item whose id has whitespace around it was approved and applied
C27_WitnessApplied ==
    /\ AppliedOk
    /\ \E i \in WrittenItems :
          /\ ProposedBefore[i].id = <<" ", "B", " ">>
          /\ MarkedCreate(ProposedBefore[i])

\* ------------------------------------------------------------------------
\* The files of an apply run and the audit JSON it leaves
\* ------------------------------------------------------------------------

\* the ids the persisted audit JSON records as created
PersistedCreatedIds ==
    IF audit.applied = NoKey THEN {} ELSE SeqToSet(audit.applied.created_ids)

\* every file the run wrote belongs to an item that the persisted audit
\* JSON marks created and lists in applied.created_ids
WrittenAreRecorded ==
    \A k \in 1..Len(run.written) :
        /\ audit.proposed_tests[run.written[k].item].status = "created"
        /\ Identifier(ProposedBefore[run.written[k].item]) \in PersistedCreatedIds

\* C28: whenever an apply run ends, by success or by a fatal error, every
\* test file it wrote belongs to an item whose status is created in the
\* persisted audit JSON and whose id is in the persisted applied.created_ids
C28_FilesAndJsonConsistent == Applied => WrittenAreRecorded

\* the same at the end of the successful runs
C28_ConsistentOnSuccess == AppliedOk => WrittenAreRecorded

\* a run wrote the file of its first item, raised on the path of the second
\* and left the audit JSON as it was
C28_WitnessFatalAfterWrite ==
    /\ Applied
    /\ run.outcome = "fatal"
    /\ Len(run.written) = 1
    /\ audit = run.auditBefore
    /\ audit.proposed_tests[run.written[1].item].status = "proposed"
    /\ run.written[1].loc \in DOMAIN files

\* ------------------------------------------------------------------------
\* The generations that fail before the artifact is written
\* ------------------------------------------------------------------------

FailedGeneration == run.op = "generate" /\ run.outcome = "fatal"

\* C29: a generation that fails before the artifact is written leaves the
\* artifact and the persisted last emitted version as they were; a
\* successful run that follows it stamps the version the failed run had
\* computed; the persisted version changes only in a run that has written
\* the artifact with it
C29_FailedRunKeepsVersion ==
    [][/\ FailedGeneration' =>
             /\ artifact' = artifact
             /\ PersistedVersion' = PersistedVersion
       /\ (FailedGeneration /\ Generated') => run'.version = run.version
       /\ (run'.op = "generate" /\ PersistedVersion' # PersistedVersion) =>
             /\ Generated'
             /\ Strip(MarkerOf(artifact')) = PersistedVersion']_vars

\* after a first generation, a run whose listing failed saved the setting of
\* its command line, and artifact and version are as the first run left them
C29_Witness ==
    /\ FailedGeneration
    /\ run.failed = "listing"
    /\ config # run.configBefore
    /\ artifact.exists
    /\ artifact = run.artifactBefore
    /\ PersistedVersion = FirstVersion
    /\ run.version = <<"1", ".", "0", ".", "1">>

\* the successful run after it stamped 1.0.1
C29_WitnessNextRun ==
    /\ Generated
    /\ run.configBefore.kind = "object"
    /\ run.configBefore.max_text_file_bytes = Num(100)
    /\ run.args = NoArgs
    /\ run.version = <<"1", ".", "0", ".", "1">>
    /\ PersistedVersion = run.version

\* ------------------------------------------------------------------------
\* Identifiers that leave the audit JSON and come back: the audit tool
\* reports and withdraws items, the user types decisions, and the
\* generators regenerate the ledger.  run holds, next to the last
\* operation, the identifiers whose decision a regeneration dropped and the
\* ones of them that the last regeneration found in the audit JSON again.
\* ------------------------------------------------------------------------

\* the items the audit tool may report and withdraw
ReturnItems(s) ==
    IF s = "dead"
    THEN { [id |-> <<"A">>, name |-> <<"n">>], [id |-> <<" ", "B", " ">>, name |-> Absent] }
    ELSE { [id |-> <<"A">>, scope |-> Absent, file_path |-> <<"tests", "/", "a.py">>],
           [id |-> <<" ", "B", " ">>, scope |-> Absent, file_path |-> <<"tests", "/", "a.py">>] }

ReturnAt(op, outcome, before, dropped, returned) ==
    [op |-> op, outcome |-> outcome, before |-> before, dropped |-> dropped,
     returned |-> returned]

InitReturn ==
    /\ skill \in {"dead", "tests"}
    /\ \E l \in AuditLists(skill), it \in ReturnItems(skill) :
          audit = [EmptyAudit(skill) EXCEPT ![l] = <<it>>]
    /\ ledger = NoFile
    /\ files = << >>
    /\ run = ReturnAt("none", "ok", NoFile, {}, {})
    /\ artifact = NoFile
    /\ config = NoConfig
    /\ edits = 0

\* the identifiers of the ledger whose block carries a flag or a note
Decided(f) ==
    IF ~f.exists THEN {}
    ELSE { id \in BlockIdSet(f) :
              \E b \in BlocksOf(f, id) : BlockFlag(b) # <<>> \/ BlockNotes(b) # <<>> }

\* a regeneration with the result r
Regenerate(r) ==
    /\ ledger' = r.ledger
    /\ run' = IF r.outcome = "ok"
              THEN ReturnAt("update", "ok", ledger,
                            (run.dropped \cup Decided(ledger)) \ AuditIdSet,
                            run.dropped \cap AuditIdSet)
              ELSE ReturnAt("update", r.outcome, ledger, run.dropped, {})
    /\ UNCHANGED <<skill, audit, files, artifact, config, edits>>

RegenerateDeadCode ==
    /\ skill = "dead"
    /\ \E r \in {UpdateDeadCodeProgressResult(audit, ledger)} : Regenerate(r)

RegenerateTests ==
    /\ skill = "tests"
    /\ \E r \in {UpdateTestsProgressResult(audit, ledger)} : Regenerate(r)

\* the audit tool reports an item it does not report yet
AuditReports ==
    /\ edits < MaxEdits + 1
    /\ SumLen(audit, AuditLists(skill)) < MaxItems
    /\ \E l \in AuditLists(skill), it \in ReturnItems(skill) :
          /\ Identifier(it) \notin AuditIdSet
          /\ audit' = [audit EXCEPT ![l] = Append(@, it)]
    /\ edits' = edits + 1
    /\ run' = ReturnAt("audit", "ok", ledger, run.dropped, {})
    /\ UNCHANGED <<skill, ledger, files, artifact, config>>

\* the audit tool withdraws an item
AuditWithdraws ==
    /\ edits < MaxEdits + 1
    /\ \E l \in AuditLists(skill) : \E i \in 1..Len(audit[l]) :
          audit' = [audit EXCEPT ![l] = RemoveAt(@, i)]
    /\ edits' = edits + 1
    /\ run' = ReturnAt("audit", "ok", ledger, run.dropped, {})
    /\ UNCHANGED <<skill, ledger, files, artifact, config>>

\* the user types a decision flag or a note into a block of the ledger
UserDecides ==
    /\ edits < MaxEdits + 1
    /\ ledger.exists
    /\ \E i \in 1..Len(ledger.lines) : \E v \in FlagEdits \cup NoteEdits :
          /\ \/ ledger.lines[i].key = FlagKey(skill) /\ v \in FlagEdits
             \/ ledger.lines[i].key = "Notes" /\ v \in NoteEdits
          /\ ledger.lines[i].val # v
          /\ ledger' = [ledger EXCEPT !.lines[i].val = v]
    /\ edits' = edits + 1
    /\ run' = ReturnAt("edit", "ok", ledger', run.dropped, {})
    /\ UNCHANGED <<skill, audit, files, artifact, config>>

NextReturn ==
    \/ RegenerateDeadCode
    \/ RegenerateTests
    \/ AuditReports
    \/ AuditWithdraws
    \/ UserDecides

SpecReturn == InitReturn /\ [][NextReturn]_vars

\* C30: an identifier that carried a decision, was absent from the audit
\* JSON in a regeneration and is present again in a later one has, in the
\* ledger of the later one, a block with an empty decision flag and empty
\* Notes; while it is absent the ledger has no block of it
C30_AtMostOnce ==
    UpdatedOk =>
        /\ \A id \in run.returned :
              /\ BlocksOf(ledger, id) # {}
              /\ \A nb \in BlocksOf(ledger, id) :
                    BlockFlag(nb) = <<>> /\ BlockNotes(nb) = <<>>
        /\ \A id \in run.dropped : BlocksOf(ledger, id) = {}

\* a dead-code item whose decision was dropped is back with an empty block
C30_Witness ==
    /\ UpdatedOk
    /\ skill = "dead"
    /\ <<"A">> \in run.returned
    /\ \E nb \in BlocksOf(ledger, <<"A">>) : BlockFlag(nb) = <<>> /\ BlockNotes(nb) = <<>>

\* the same for a proposed test
C30_WitnessTests ==
    /\ UpdatedOk
    /\ skill = "tests"
    /\ run.returned # {}
    /\ \A id \in run.returned : BlocksOf(ledger, id) # {}

====
